---- MODULE Spec2Model ----
(***************************************************************************)
(* MuelitaSys: two desktop dental-record programs.                         *)
(*                                                                         *)
(*   codigo_dental_final.py   App / PatientsTab / OdontogramTab /          *)
(*                            PeriodonticsTab over consultorio.db          *)
(*   sistema_odontologico.py  DentalManagementSystem over dental_clinic.db *)
(*                                                                         *)
(* Each program is a single-threaded Tk event loop: every handler runs to  *)
(* completion, so every handler is one action.                             *)
(***************************************************************************)
EXTENDS Integers, Sequences, FiniteSets, TLC

(***************************************************************************)
(* Bounds of the model.                                                    *)
(***************************************************************************)
\* patients that are ever created (AUTOINCREMENT ids 1..MaxPatients)
MaxPatients == 2
\* teeth drawn per dentition scheme (a prefix of the FDI lists)
NumPiezas == 1
\* surfaces drawn per tooth (a prefix of SURFACES)
NumCaras == 2
\* left-clicks on the tooth chart of codigo_dental_final.py in one run
MaxEdits == 5
\* assignments on the tooth chart of sistema_odontologico.py in one run
SisMaxEdits == 3
\* teeth drawn by sistema_odontologico.py (a prefix of quadrant 1)
SisNumTeeth == 2
\* statuses offered by the status menu and combobox (a prefix of tooth_colors)
SisNumStatus == 2
\* sites per tooth of the PeriodonticsTab grid (a prefix of sitios)
PerioNumSitios == 1
\* variables per tooth of the periodontogram grid (a prefix, in the order
\* draw_periodontogram_grid makes them)
PerioNumFields == 3
\* the whole part of the numbers typed into the periodontal grids is at
\* most this
MaxNumber == 9
\* widgets of a periodontal grid the user edits in one run
PerioMaxEdits == 2
\* files export_file writes in one run
MaxExports == 1

\* self.patient_id = None ("if not self.patient_id" also takes 0 for it)
NoPatient == 0

(***************************************************************************)
(* codigo_dental_final.py: constants of the tooth chart.                   *)
(***************************************************************************)
ODONTO_STATES == <<"Sano", "Caries", "Restauracion", "Ausente", "Implante">>

ODONTO_COLORS ==
  [st \in {ODONTO_STATES[i] : i \in 1..Len(ODONTO_STATES)} |->
     CASE st = "Sano"         -> "#A7F3D0"
       [] st = "Caries"       -> "#FCA5A5"
       [] st = "Restauracion" -> "#93C5FD"
       [] st = "Ausente"      -> "#E5E7EB"
       [] st = "Implante"     -> "#FDE68A"]

SURFACES_ALL == <<"O", "M", "D", "B", "L">>

SURFACES == SubSeq(SURFACES_ALL, 1, NumCaras)

ADULTO_ALL ==
  <<"18", "17", "16", "15", "14", "13", "12", "11",
    "21", "22", "23", "24", "25", "26", "27", "28",
    "48", "47", "46", "45", "44", "43", "42", "41",
    "31", "32", "33", "34", "35", "36", "37", "38">>

ADULTO_PIEZAS == SubSeq(ADULTO_ALL, 1, NumPiezas)

TEMPORAL_ALL ==
  <<"55", "54", "53", "52", "51", "61", "62", "63", "64", "65",
    "85", "84", "83", "82", "81", "71", "72", "73", "74", "75">>

TEMPORAL_PIEZAS == SubSeq(TEMPORAL_ALL, 1, NumPiezas)

ESQUEMAS == {"adulto", "temporal"}

Range(s) == {s[i] : i \in 1..Len(s)}

(***************************************************************************)
(* sistema_odontologico.py: constants of the tooth chart.                  *)
(***************************************************************************)
\* the keys of self.tooth_colors, in insertion order
SIS_STATES_ALL ==
  <<"Sano", "Caries", "Restauracion", "Ausente", "Implante", "Corona",
    "Endodoncia", "A-Extraccion">>

tooth_colors ==
  [st \in Range(SIS_STATES_ALL) |->
     CASE st = "Sano"         -> "#FFFFFF"
       [] st = "Caries"       -> "#FF6347"
       [] st = "Restauracion" -> "#4169E1"
       [] st = "Ausente"      -> "#696969"
       [] st = "Implante"     -> "#FFD700"
       [] st = "Corona"       -> "#9370DB"
       [] st = "Endodoncia"   -> "#FF69B4"
       [] st = "A-Extraccion" -> "#FF0000"]

\* the statuses the user picks from
SIS_STATES == SubSeq(SIS_STATES_ALL, 1, SisNumStatus)

\* quadrant 1 of draw_odontogram
SIS_TEETH_ALL == <<18, 17, 16, 15, 14, 13, 12, 11>>

SIS_TEETH == SubSeq(SIS_TEETH_ALL, 1, SisNumTeeth)

\* the surfaces of create_tooth_surfaces
SIS_SURFACES_ALL == <<"O", "M", "D", "V", "P">>

SIS_SURFACES == SubSeq(SIS_SURFACES_ALL, 1, NumCaras)

(***************************************************************************)
(* State.                                                                  *)
(***************************************************************************)
VARIABLES
  \* which program, and which of its tabs, the run works in
  focus,
  \* ---- codigo_dental_final.py ----
  \* consultorio.db
  patients,      \* ids of the rows of table patients
  next_id,       \* the next AUTOINCREMENT id of table patients
  odontogram,    \* rows [patient_id, esquema, data_json] of table odontogram
  \* App / OdontogramTab
  patient_id,    \* App.patient_id = OdontogramTab.patient_id
  esquema,       \* OdontogramTab.esquema (tk.StringVar)
  data,          \* OdontogramTab.data  {pieza: {cara: estado}}
  rect_fill,     \* canvas: (pieza, cara) of rect_index -> fill colour
  \* PeriodonticsTab (its patient_id is App.patient_id)
  periodontics,  \* rows of table periodontics
  widgets,       \* PeriodonticsTab.widgets: pieza -> the variables of a tooth
  metrics,       \* the four metric variables under the grid
  \* ---- sistema_odontologico.py ----
  \* dental_clinic.db as self.conn reads it
  sis_patients,       \* ids of the rows of table patients
  sis_next_id,        \* the next AUTOINCREMENT id of table patients
  sis_odontogram,     \* rows [patient_id, tooth_number, status, face]
  \* DentalManagementSystem
  current_patient_id,
  tree_selection,     \* patients_tree.selection()
  selected_tooth,     \* None or (tooth_number, surface)
  fill,               \* odonto_canvas: (tooth, surface) -> fill colour
  periodontogram,     \* rows [patient_id, tooth_number, cols]
  perio_entries,      \* perio_entries: (tooth, key) -> value of the variable
  committed_periodontogram,  \* table periodontogram as of the last commit
  \* ---- observation of the run ----
  nedits,        \* edits of the tooth chart so far
  lastOp,        \* the handler that ran last and how it ended
  streak,        \* the clicks in a row on one rectangle of OdontogramTab
  saved,         \* per patient, the chart handed to the last save
  picked,        \* the scheme the user works under: the radio button picked
                 \* last, or the one shown when the patient was loaded
  ni_entered,    \* the (pieza, site) pairs whose NI was typed or imported
  exported       \* the files export_file wrote

varsFinal == <<patients, next_id, odontogram, patient_id, esquema, data,
               rect_fill>>

varsSis == <<sis_patients, sis_next_id, sis_odontogram, current_patient_id,
             tree_selection, selected_tooth, fill>>

varsPerio == <<periodontics, widgets, metrics, ni_entered, exported>>

varsSisPerio == <<periodontogram, perio_entries, committed_periodontogram>>

vars == <<focus, varsFinal, varsPerio, varsSis, varsSisPerio, nedits, lastOp,
          streak, saved, picked>>

NoStreak == [item |-> <<"", "">>, n |-> 0, start |-> ""]

(***************************************************************************)
(* OdontogramTab helpers.                                                  *)
(***************************************************************************)
\* self.data.get(pieza, {}).get(cara, "Sano")
GetStatus(d, pieza, cara) ==
  IF pieza \in DOMAIN d /\ cara \in DOMAIN d[pieza] THEN d[pieza][cara]
  ELSE "Sano"

\* ODONTO_COLORS.get(estado, "#FFF")
FillOf(estado) ==
  IF estado \in DOMAIN ODONTO_COLORS THEN ODONTO_COLORS[estado] ELSE "#FFF"

_grid_piezas(esq) ==
  IF esq = "adulto" THEN ADULTO_PIEZAS ELSE TEMPORAL_PIEZAS

\* _draw: canvas.delete("all"), rect_index.clear(), one rectangle per
\* (pieza, cara) of the active scheme, filled from self.data
_draw(esq, d) ==
  [cell \in Range(_grid_piezas(esq)) \X Range(SURFACES) |->
     FillOf(GetStatus(d, cell[1], cell[2]))]

\* ODONTO_STATES.index(x), 0-based
IndexOf(x) == (CHOOSE i \in 1..Len(ODONTO_STATES) : ODONTO_STATES[i] = x) - 1

\* a cycle that never reaches the last status
NextState_m(current_state) ==
  ODONTO_STATES[((IndexOf(current_state) + 1) % (Len(ODONTO_STATES) - 1)) + 1]

\* the status after one click
NextState(current_state) ==
  ODONTO_STATES[((IndexOf(current_state) + 1) % Len(ODONTO_STATES)) + 1]

\* self.data[pieza] = {cara: estado}: the tooth's other surfaces are dropped
SetCell_m(d, pieza, cara, estado) ==
  [p \in DOMAIN d \cup {pieza} |->
     IF p = pieza THEN [c \in {cara} |-> estado] ELSE d[p]]

\* self.data[pieza][cara] = estado (creating self.data[pieza] when missing)
SetCell(d, pieza, cara, estado) ==
  LET inner == IF pieza \in DOMAIN d THEN d[pieza] ELSE <<>>
      inner2 == [c \in DOMAIN inner \cup {cara} |->
                   IF c = cara THEN estado ELSE inner[c]]
  IN  [p \in DOMAIN d \cup {pieza} |-> IF p = pieza THEN inner2 ELSE d[p]]

EmptyData == <<>>

\* json.dumps of {pieza: {cara: estado}}: the members of the object, each
\* with the members of its inner object
JsonDumps(d) ==
  {<<p, {<<c, d[p][c]>> : c \in DOMAIN d[p]}>> : p \in DOMAIN d}

\* json.loads: back to a dict of dicts
JsonLoads(j) ==
  [p \in {m[1] : m \in j} |->
     LET inner == (CHOOSE m \in j : m[1] = p)[2]
     IN  [c \in {x[1] : x \in inner} |-> (CHOOSE x \in inner : x[1] = c)[2]]]

\* SELECT esquema, data_json FROM odontogram WHERE patient_id=?
OdontogramRows(pid) == {r \in odontogram : r.patient_id = pid}

\* INSERT OR IGNORE: a patient's first snapshot is never replaced
Upsert_m(rows, pid, esq, dj) ==
  IF \E r \in rows : r.patient_id = pid THEN rows
  ELSE rows \cup {[patient_id |-> pid, esquema |-> esq, data_json |-> dj]}

\* INSERT ... ON CONFLICT(patient_id) DO UPDATE SET esquema=..., data_json=...
Upsert(rows, pid, esq, dj) ==
  {r \in rows : r.patient_id # pid}
    \cup {[patient_id |-> pid, esquema |-> esq, data_json |-> dj]}

\* load without self.data.clear(): with no row the working copy stays
LoadResult_m(pid, esq) ==
  IF pid = NoPatient
    THEN <<esq, data, rect_fill>>
    ELSE IF OdontogramRows(pid) # {}
      THEN LET row == CHOOSE r \in OdontogramRows(pid) : TRUE
               d == JsonLoads(row.data_json)
           IN  <<row.esquema, d, _draw(row.esquema, d)>>
      ELSE <<esq, data, _draw(esq, data)>>

\* OdontogramTab.load with self.patient_id = pid and the scheme variable esq:
\* <<esquema, data, rect_fill>> afterwards
LoadResult(pid, esq) ==
  IF pid = NoPatient
    THEN <<esq, EmptyData, rect_fill>>
    ELSE IF OdontogramRows(pid) # {}
      THEN LET row == CHOOSE r \in OdontogramRows(pid) : TRUE
               d == JsonLoads(row.data_json)
           IN  <<row.esquema, d, _draw(row.esquema, d)>>
      ELSE <<esq, EmptyData, _draw(esq, EmptyData)>>

load(pid, esq) ==
  /\ esquema' = LoadResult(pid, esq)[1]
  /\ data' = LoadResult(pid, esq)[2]
  /\ rect_fill' = LoadResult(pid, esq)[3]

(***************************************************************************)
(* PeriodonticsTab helpers.                                                *)
(***************************************************************************)
sitios_ALL == <<"MB", "B", "DB", "ML", "L", "DL">>

sitios == SubSeq(sitios_ALL, 1, PerioNumSitios)

\* the keys of self.widgets: PeriodonticsTab's own ADULTO_PIEZAS
PerioPiezas == SubSeq(ADULTO_ALL, 1, NumPiezas)

\* the columns of a table periodontics that has the column nota
PeriodonticsColumns_m ==
  {"id", "patient_id", "pieza", "sitio", "ps", "mg", "ni", "ss", "sup", "mov",
   "nota"}

\* the columns of table periodontics (init_db)
PeriodonticsColumns ==
  {"id", "patient_id", "pieza", "sitio", "ps", "mg", "ni", "ss", "sup", "mov"}

\* the columns save_all_to_db inserts and refresh selects
PeriodonticsUsed ==
  {"patient_id", "pieza", "sitio", "ps", "mg", "ni", "ss", "sup", "mov",
   "nota"}

\* the widgets of one tooth with the suppuration flags left set
DefaultTooth_m ==
  [ps |-> [i \in 1..Len(sitios) |-> "0"], mg |-> "0",
   ni |-> [i \in 1..Len(sitios) |-> "N/A"],
   ss |-> [i \in 1..Len(sitios) |-> 0],
   sup |-> [i \in 1..Len(sitios) |-> 1], mov |-> "0", nota |-> ""]

\* the widgets of one tooth as _build_tooth_column and clear_form set them
DefaultTooth ==
  [ps |-> [i \in 1..Len(sitios) |-> "0"], mg |-> "0",
   ni |-> [i \in 1..Len(sitios) |-> "N/A"],
   ss |-> [i \in 1..Len(sitios) |-> 0],
   sup |-> [i \in 1..Len(sitios) |-> 0], mov |-> "0", nota |-> ""]

\* clear_form: every tooth back to the defaults
ClearForm == [p \in Range(PerioPiezas) |-> DefaultTooth]

\* the value of a metric variable: a format and the number formatted, in
\* hundredths; <<"", 0>> is the empty string
NoMetric == <<"", 0>>

\* clear_form empties three of the four metric variables
ClearMetrics(m) ==
  [m EXCEPT !.profundidad_media = NoMetric, !.nivel_insercion = NoMetric,
            !.porcentaje_sas = NoMetric]

\* str() of a float with one decimal (and f"{x:.1f}"), the float kept in
\* tenths: 35 is 3.5 and gives "3.5"
StrOfReal(t) ==
  IF t < 0 THEN "-" \o ToString((-t) \div 10) \o "." \o ToString((-t) % 10)
  ELSE ToString(t \div 10) \o "." \o ToString(t % 10)

\* str() of an int
StrOfInt(n) == IF n < 0 THEN "-" \o ToString(-n) ELSE ToString(n)

\* int() of a text: defined on the integer numerals "-9" .. "9"
PyInt ==
  [s \in {StrOfInt(n) : n \in -MaxNumber..MaxNumber} |->
     CHOOSE n \in -MaxNumber..MaxNumber : StrOfInt(n) = s]

\* float() of a text, in tenths: defined on the numerals with one decimal,
\* "-9.9" .. "9.9", and on the integer numerals; every other text of the
\* model ("", "x", "N/A", the superscript two) makes float() raise ValueError
PyFloat ==
  [s \in {StrOfReal(t) : t \in -(10 * MaxNumber + 9)..(10 * MaxNumber + 9)}
            \cup DOMAIN PyInt |->
     IF s \in DOMAIN PyInt THEN 10 * PyInt[s]
     ELSE CHOOSE t \in -(10 * MaxNumber + 9)..(10 * MaxNumber + 9) :
            StrOfReal(t) = s]

\* int() of a float kept in tenths: towards zero
IntOfReal(t) == IF t < 0 THEN -((-t) \div 10) ELSE t \div 10

\* _to_float: float(s), 0.0 for what float() refuses
_to_float(s) == IF s \in DOMAIN PyFloat THEN PyFloat[s] ELSE 0

\* _to_int: int(float(s)), 0 for what float() refuses
_to_int(s) == IF s \in DOMAIN PyFloat THEN IntOfReal(PyFloat[s]) ELSE 0

\* ni of a site taken without the margin of its tooth
NiOf_m(vals, i) ==
  IF vals.ni[i] = "N/A" THEN _to_float(vals.ps[i])
  ELSE _to_float(vals.ni[i])

\* ni of a site as save_all_to_db and calculate_metrics take it
NiOf(vals, i) ==
  IF vals.ni[i] = "N/A" THEN _to_float(vals.ps[i]) - _to_float(vals.mg)
  ELSE _to_float(vals.ni[i])

\* the rows save_all_to_db writes for the form w
PerioRowsOf(pid, w) ==
  {[patient_id |-> pid, pieza |-> p, sitio |-> sitios[i],
    ps |-> _to_float(w[p].ps[i]), mg |-> _to_float(w[p].mg),
    ni |-> NiOf(w[p], i), ss |-> w[p].ss[i], sup |-> w[p].sup[i],
    mov |-> _to_int(w[p].mov), nota |-> w[p].nota] :
     p \in DOMAIN w, i \in 1..Len(sitios)}

\* INSERT OR REPLACE under UNIQUE(patient_id, pieza, sitio)
PerioReplace(rows, new) ==
  {r \in rows : ~ \E n \in new : /\ n.patient_id = r.patient_id
                                /\ n.pieza = r.pieza
                                /\ n.sitio = r.sitio}
    \cup new

\* refresh: the form after the rows of the patient are applied to a cleared
\* form (one row per (pieza, sitio); mg, mov and nota are those of any row of
\* the tooth, all rows of a tooth carrying the same)
FormOfRows(pid) ==
  [p \in Range(PerioPiezas) |->
     LET rows == {r \in periodontics : r.patient_id = pid /\ r.pieza = p}
         at(i) == {r \in rows : r.sitio = sitios[i]}
         one(i) == CHOOSE r \in at(i) : TRUE
         any == CHOOSE r \in rows : TRUE
     IN  IF rows = {} THEN DefaultTooth
         ELSE [ps |-> [i \in 1..Len(sitios) |->
                         IF at(i) = {} THEN "0" ELSE StrOfReal(one(i).ps)],
               ni |-> [i \in 1..Len(sitios) |->
                         IF at(i) = {} THEN "N/A" ELSE StrOfReal(one(i).ni)],
               ss |-> [i \in 1..Len(sitios) |->
                         IF at(i) = {} THEN 0 ELSE one(i).ss],
               sup |-> [i \in 1..Len(sitios) |->
                          IF at(i) = {} THEN 0 ELSE one(i).sup],
               mg |-> StrOfReal(any.mg), mov |-> StrOfInt(any.mov),
               nota |-> any.nota]]

\* PeriodonticsTab.refresh with self.patient_id = pid: <<widgets, result>>;
\* the SELECT names column nota and raises when the table has none
RefreshResult(pid) ==
  IF pid = NoPatient THEN <<ClearForm, "Sin paciente">>
  ELSE IF PeriodonticsUsed \subseteq PeriodonticsColumns
    THEN <<FormOfRows(pid), "ok">>
    ELSE <<ClearForm, "OperationalError">>

\* PeriodonticsTab.set_patient: clear_form, then refresh for a patient
set_patient(pid) ==
  /\ widgets' = RefreshResult(pid)[1]
  /\ metrics' = ClearMetrics(metrics)
  /\ UNCHANGED <<ni_entered, exported>>

(***************************************************************************)
(* App.on_patient_change: every tab is handed the patient, PeriodonticsTab *)
(* last; what its refresh raises ends the handler.                         *)
(***************************************************************************)
on_patient_change(pid) ==
  /\ patient_id' = pid
  /\ load(pid, esquema)
  /\ set_patient(pid)
  /\ picked' = esquema'

\* how on_patient_change ends
PatientChangeResult(pid) ==
  IF pid = NoPatient THEN "ok" ELSE RefreshResult(pid)[2]

(***************************************************************************)
(* Handlers of codigo_dental_final.py                                      *)
(***************************************************************************)
\* PatientsTab.save_patient with no row selected: INSERT, then
\* tree.selection_set(new id), whose <<TreeviewSelect>> runs on_select
save_patient ==
  /\ next_id <= MaxPatients
  /\ patients' = patients \cup {next_id}
  /\ next_id' = next_id + 1
  /\ on_patient_change(next_id)
  /\ lastOp' = [op |-> "save_patient", res |-> PatientChangeResult(next_id),
                note |-> ""]
  /\ streak' = NoStreak
  /\ UNCHANGED <<odontogram, periodontics, nedits, saved>>

\* PatientsTab.on_select of a listed patient
on_select(pid) ==
  /\ pid \in patients
  /\ on_patient_change(pid)
  /\ lastOp' = [op |-> "on_select", res |-> PatientChangeResult(pid),
                note |-> ""]
  /\ streak' = NoStreak
  /\ UNCHANGED <<patients, next_id, odontogram, periodontics, nedits, saved>>

\* a connection with PRAGMA foreign_keys=ON: ON DELETE CASCADE takes effect
ForeignKeysOn_m == TRUE

\* get_conn never issues PRAGMA foreign_keys=ON
ForeignKeysOn == FALSE

\* PatientsTab.delete_patient, confirmed in the dialog
delete_patient ==
  /\ patient_id # NoPatient
  /\ patient_id \in patients
  /\ patients' = patients \ {patient_id}
  /\ odontogram' = IF ForeignKeysOn
                     THEN {r \in odontogram : r.patient_id # patient_id}
                     ELSE odontogram
  /\ periodontics' = IF ForeignKeysOn
                       THEN {r \in periodontics : r.patient_id # patient_id}
                       ELSE periodontics
  /\ on_patient_change(NoPatient)
  /\ lastOp' = [op |-> "delete_patient", res |-> "ok", note |-> ""]
  /\ streak' = NoStreak
  /\ UNCHANGED <<next_id, nedits, saved>>

\* the clicks in a row on one rectangle, after one more on item
StreakAfter(item, current_state) ==
  IF streak.item = item /\ streak.n < Len(ODONTO_STATES)
    THEN [streak EXCEPT !.n = @ + 1]
    ELSE [item |-> item, n |-> 1, start |-> current_state]

\* OdontogramTab.on_click; item is what canvas.find_closest returns: a
\* rectangle of rect_index or, for "label", a tooth-number text
on_click(item) ==
  /\ nedits < MaxEdits
  /\ nedits' = nedits + 1
  /\ IF patient_id = NoPatient
       THEN /\ lastOp' = [op |-> "on_click", res |-> "Sin paciente", note |-> ""]
            /\ streak' = NoStreak
            /\ UNCHANGED <<data, rect_fill>>
       ELSE IF item \in DOMAIN rect_fill
         THEN LET pieza == item[1]
                  cara == item[2]
                  current_state == GetStatus(data, pieza, cara)
              IN  IF current_state \in Range(ODONTO_STATES)
                    THEN LET next_state == NextState(current_state)
                         IN  /\ data' = SetCell(data, pieza, cara, next_state)
                             /\ IF next_state \in DOMAIN ODONTO_COLORS
                                  THEN /\ rect_fill' =
                                            [rect_fill EXCEPT
                                               ![item] = ODONTO_COLORS[next_state]]
                                       /\ lastOp' = [op |-> "on_click",
                                                     res |-> "ok", note |-> ""]
                                  ELSE \* ODONTO_COLORS[next_state]: KeyError
                                       /\ lastOp' = [op |-> "on_click",
                                                     res |-> "KeyError", note |-> ""]
                                       /\ UNCHANGED rect_fill
                             /\ streak' = StreakAfter(item, current_state)
                    ELSE \* ODONTO_STATES.index raises ValueError
                         /\ lastOp' = [op |-> "on_click", res |-> "ValueError", note |-> ""]
                         /\ streak' = NoStreak
                         /\ UNCHANGED <<data, rect_fill>>
         ELSE /\ lastOp' = [op |-> "on_click", res |-> "miss", note |-> ""]
              /\ streak' = NoStreak
              /\ UNCHANGED <<data, rect_fill>>
  /\ UNCHANGED <<patients, next_id, odontogram, patient_id, esquema, saved,
                 picked, varsPerio>>

\* what the observer keeps of a saved chart
SavedAfter(pid, chart) ==
  [p \in DOMAIN saved \cup {pid} |-> IF p = pid THEN chart ELSE saved[p]]

\* OdontogramTab.save
save ==
  /\ IF patient_id = NoPatient
       THEN /\ lastOp' = [op |-> "save", res |-> "Sin paciente", note |-> ""]
            /\ UNCHANGED <<odontogram, saved>>
       ELSE /\ odontogram' = Upsert(odontogram, patient_id, esquema,
                                    JsonDumps(data))
            /\ saved' = SavedAfter(patient_id,
                                   [esquema |-> esquema, data |-> data])
            /\ lastOp' = [op |-> "save", res |-> "ok", note |-> ""]
  /\ streak' = NoStreak
  /\ UNCHANGED <<patients, next_id, patient_id, esquema, data, rect_fill,
                 nedits, picked, varsPerio>>

\* a scheme radio button: Tk stores its value in self.esquema, then _reload
_reload(s) ==
  /\ load(patient_id, s)
  /\ picked' = s
  /\ lastOp' = [op |-> "_reload", res |-> s,
                note |-> IF data = LoadResult(patient_id, s)[2]
                           THEN "clean" ELSE "dirty"]
  /\ streak' = NoStreak
  /\ UNCHANGED <<patients, next_id, odontogram, patient_id, nedits, saved,
                 varsPerio>>

NextOdontogramTab ==
  \/ save_patient
  \/ \E pid \in 1..MaxPatients : on_select(pid)
  \/ delete_patient
  \/ \E item \in (DOMAIN rect_fill) \cup {<<"label", "">>} : on_click(item)
  \/ save
  \/ \E s \in ESQUEMAS : _reload(s)

(***************************************************************************)
(* Handlers of PeriodonticsTab                                             *)
(***************************************************************************)
\* the texts typed into an Entry of the grid: numbers with and without
\* decimals, a negative number, a zero, a word
PERIO_TEXTS == {"3.5", "1", "-1", "0", "2", "7", "x"}

\* the texts of PERIO_TEXTS typed into the Entry of a field
WidgetTextsOf(field) ==
  CASE field = "ps" -> {"3.5", "x"}
    [] field = "mg" -> {"1", "-1"}
    [] field = "ni" -> {"0", "2"}
    [] OTHER -> {"7", "x"}

\* what the user can leave in a widget: a text in an Entry, the other value
\* in a Checkbutton
WidgetInputs(w, p, field, i) ==
  CASE field \in {"ss", "sup"} -> {1 - w[p][field][i]}
    [] field = "nota" -> {"n"}
    [] OTHER -> WidgetTextsOf(field)

\* the user edits one widget of the grid (Tk writes the variable)
edit_widget(p, field, i, v) ==
  /\ nedits < PerioMaxEdits
  /\ nedits' = nedits + 1
  /\ widgets' = IF field \in {"ps", "ni", "ss", "sup"}
                  THEN [widgets EXCEPT ![p][field][i] = v]
                  ELSE [widgets EXCEPT ![p][field] = v]
  /\ ni_entered' = IF field = "ni" THEN ni_entered \cup {<<p, i>>}
                   ELSE ni_entered
  /\ UNCHANGED exported
  /\ lastOp' = [op |-> "edit_widget", res |-> "ok", note |-> field]
  /\ UNCHANGED <<varsFinal, periodontics, metrics, streak, saved, picked>>

\* button "Guardar en DB"; the INSERT names column nota: without it the
\* first execute raises and the with-block rolls back
save_all_to_db ==
  /\ IF patient_id = NoPatient
       THEN /\ lastOp' = [op |-> "save_all_to_db", res |-> "Sin paciente",
                          note |-> ""]
            /\ UNCHANGED periodontics
       ELSE IF PeriodonticsUsed \subseteq PeriodonticsColumns
         THEN /\ periodontics' =
                   PerioReplace(periodontics, PerioRowsOf(patient_id, widgets))
              /\ lastOp' = [op |-> "save_all_to_db", res |-> "ok", note |-> ""]
         ELSE /\ lastOp' = [op |-> "save_all_to_db",
                            res |-> "OperationalError", note |-> ""]
              /\ UNCHANGED periodontics
  /\ UNCHANGED <<varsFinal, widgets, metrics, nedits, streak, ni_entered,
                 exported,
                 saved, picked>>

\* button "Cargar ultimo"
refresh ==
  /\ widgets' = RefreshResult(patient_id)[1]
  /\ metrics' = ClearMetrics(metrics)
  /\ lastOp' = [op |-> "refresh", res |-> RefreshResult(patient_id)[2],
                note |-> ""]
  /\ UNCHANGED <<varsFinal, periodontics, nedits, streak, ni_entered,
                 exported,
                 saved, picked>>

\* the (pieza, site index) pairs of the grid
PerioSites(w) == (DOMAIN w) \X (1..Len(sitios))

RECURSIVE SumSites(_, _, _)
\* the sum calculate_metrics accumulates over the sites: ps and ni in tenths
SumSites(w, cells, what) ==
  IF cells = {} THEN 0
  ELSE LET c == CHOOSE x \in cells : TRUE
           v == CASE what = "ps" -> _to_float(w[c[1]].ps[c[2]])
                  [] what = "ni" -> NiOf(w[c[1]], c[2])
                  [] what = "ss" -> w[c[1]].ss[c[2]]
       IN  v + SumSites(w, cells \ {c}, what)

\* the last digit f"{x:.2f}" and f"{x:.1f}" keep of num / den: the nearest,
\* the even one of two equally near
RoundDiv(num, den) ==
  LET q == num \div den
      r == num % den
  IN  IF 2 * r > den \/ (2 * r = den /\ q % 2 = 1) THEN q + 1 ELSE q

\* what calculate_metrics shows when the grid has no site
NoSites_m == <<"", 0>>

NoSites == <<"0", 0>>

\* the values calculate_metrics sets for the form w: the format and the
\* number shown, the means in hundredths of a mm, the percentage in tenths
\* of a percent
Metrics(w) ==
  LET sites == Cardinality(PerioSites(w))
      total_ps == SumSites(w, PerioSites(w), "ps")
      total_ni == SumSites(w, PerioSites(w), "ni")
      sas == SumSites(w, PerioSites(w), "ss")
  IN  [profundidad_media |->
         IF sites # 0 THEN <<"%.2f", RoundDiv(total_ps * 10, sites)>>
         ELSE NoSites,
       nivel_insercion |->
         IF sites # 0 THEN <<"%.2f", RoundDiv(total_ni * 10, sites)>>
         ELSE NoSites,
       porcentaje_sas |->
         IF sites # 0 THEN <<"%.1f%%", RoundDiv(sas * 1000, sites)>>
         ELSE NoSites,
       porcentaje_placa |-> <<"N/A", 0>>]

\* button "Calcular"
calculate_metrics ==
  /\ metrics' = Metrics(widgets)
  /\ lastOp' = [op |-> "calculate_metrics", res |-> "ok", note |-> ""]
  /\ UNCHANGED <<varsFinal, widgets, periodontics, nedits, streak,
                 ni_entered, exported, saved,
                 picked>>

\* button "Limpiar"
clear_form ==
  /\ widgets' = ClearForm
  /\ metrics' = ClearMetrics(metrics)
  /\ lastOp' = [op |-> "clear_form", res |-> "ok", note |-> ""]
  /\ UNCHANGED <<varsFinal, periodontics, nedits, streak, ni_entered,
                 exported,
                 saved, picked>>

\* d.get(k, default)
Get(d, k, default) == IF k \in DOMAIN d THEN d[k] ELSE default

\* int() of a JSON value of the documents below
JsonInt == [x \in DOMAIN PyInt |-> PyInt[x]]

RECURSIVE ImportSitios(_, _)
\* import_file: the "sitios" of one entry applied in turn to the widgets of
\* its tooth, up to the first exception
ImportSitios(vals, ss) ==
  IF ss = <<>> THEN [vals |-> vals, err |-> ""]
  ELSE LET s == Head(ss)
       IN  IF "sitio" \notin DOMAIN s THEN [vals |-> vals, err |-> "KeyError"]
           ELSE IF s.sitio \notin Range(sitios)
             THEN ImportSitios(vals, Tail(ss))
             ELSE LET idx == CHOOSE i \in 1..Len(sitios) : sitios[i] = s.sitio
                      v1 == [vals EXCEPT !.ps[idx] = Get(s, "ps", "0"),
                                         !.ni[idx] = Get(s, "ni", "N/A")]
                  IN  IF Get(s, "ss", "0") \notin DOMAIN JsonInt
                        THEN [vals |-> v1, err |-> "ValueError"]
                        ELSE LET v2 == [v1 EXCEPT !.ss[idx] =
                                          JsonInt[Get(s, "ss", "0")]]
                             IN  IF Get(s, "sup", "0") \notin DOMAIN JsonInt
                                   THEN [vals |-> v2, err |-> "ValueError"]
                                   ELSE ImportSitios(
                                          [v2 EXCEPT !.sup[idx] =
                                             JsonInt[Get(s, "sup", "0")]],
                                          Tail(ss))

\* the body of the loop over "datos" indexing self.widgets with a tooth it
\* has not
ImportEntry_m(w, d) ==
  IF "pieza" \notin DOMAIN d THEN [w |-> w, err |-> "KeyError"]
  ELSE IF d.pieza \notin DOMAIN w THEN [w |-> w, err |-> "KeyError"]
  ELSE LET v0 == [w[d.pieza] EXCEPT !.mg = Get(d, "mg", "0"),
                                    !.mov = Get(d, "mov", "0"),
                                    !.nota = Get(d, "nota", "")]
           r == ImportSitios(v0, Get(d, "sitios", <<>>))
       IN  [w |-> [w EXCEPT ![d.pieza] = r.vals], err |-> r.err]

\* import_file: the body of the loop over "datos" for the entry d; an entry
\* of a tooth the grid has not is passed over
ImportEntry(w, d) ==
  IF "pieza" \notin DOMAIN d THEN [w |-> w, err |-> "KeyError"]
  ELSE IF d.pieza \notin DOMAIN w THEN [w |-> w, err |-> ""]
  ELSE LET v0 == [w[d.pieza] EXCEPT !.mg = Get(d, "mg", "0"),
                                    !.mov = Get(d, "mov", "0"),
                                    !.nota = Get(d, "nota", "")]
           r == ImportSitios(v0, Get(d, "sitios", <<>>))
       IN  [w |-> [w EXCEPT ![d.pieza] = r.vals], err |-> r.err]

RECURSIVE ImportEntries(_, _)
\* import_file: the entries of "datos" applied in turn, up to the first
\* exception; what was set before it stays set
ImportEntries(w, datos) ==
  IF datos = <<>> THEN [w |-> w, err |-> ""]
  ELSE LET r == ImportEntry(w, Head(datos))
       IN  IF r.err # "" THEN r ELSE ImportEntries(r.w, Tail(datos))

\* the "datos" of the JSON documents the user picks from
ImportDocs ==
  {<<[pieza |-> "18", mg |-> "3",
      sitios |-> <<[sitio |-> "MB", ps |-> "3", ss |-> "1"]>>]>>,
   <<[pieza |-> "99", mg |-> "3", sitios |-> <<>>]>>,
   <<[pieza |-> "18", mov |-> "3"], [mg |-> "3"]>>,
   <<[pieza |-> "18", sitios |-> <<[sitio |-> "MB", ss |-> "3"]>>]>>}

\* the "datos" of documents that name a tooth and a site the grid has not
SkipDocs ==
  {<<[pieza |-> "99", mg |-> "5",
      sitios |-> <<[sitio |-> "MB", ps |-> "9"]>>],
     [pieza |-> "18", nota |-> "n",
      sitios |-> <<[sitio |-> "XX", ps |-> "9", ss |-> "1"]>>]>>,
   <<[pieza |-> "18", mov |-> "2",
      sitios |-> <<[sitio |-> "XX", ps |-> "9"],
                   [sitio |-> "MB", ps |-> "5", sup |-> "1"]>>],
     [pieza |-> "99", mg |-> "5"]>>}

\* the entry export_file writes for a site without its "ni"
ExportSitio_m(vals, i) ==
  [sitio |-> sitios[i], ps |-> vals.ps[i], ss |-> StrOfInt(vals.ss[i]),
   sup |-> StrOfInt(vals.sup[i])]

\* the entry export_file writes for a site: the texts of the StringVars as
\* JSON strings, the values of the IntVars as JSON numbers
ExportSitio(vals, i) ==
  [sitio |-> sitios[i], ps |-> vals.ps[i], ni |-> vals.ni[i],
   ss |-> StrOfInt(vals.ss[i]), sup |-> StrOfInt(vals.sup[i])]

\* the "datos" export_file writes for the form w: an entry for every tooth
\* in the order of self.widgets
ExportDoc(w) ==
  [n \in 1..Len(PerioPiezas) |->
     LET vals == w[PerioPiezas[n]]
     IN  [pieza |-> PerioPiezas[n], mg |-> vals.mg, mov |-> vals.mov,
          nota |-> vals.nota,
          sitios |-> [i \in 1..Len(sitios) |-> ExportSitio(vals, i)]]]

\* button "Exportar", a new file named in the dialog: the document and,
\* with it, the grid it was written from
export_file ==
  /\ Len(exported) < MaxExports
  /\ IF patient_id = NoPatient
       THEN /\ lastOp' = [op |-> "export_file", res |-> "Sin paciente",
                          note |-> ""]
            /\ UNCHANGED exported
       ELSE /\ exported' = Append(exported, [datos |-> ExportDoc(widgets),
                                             grid |-> widgets])
            /\ lastOp' = [op |-> "export_file", res |-> "ok", note |-> ""]
  /\ UNCHANGED <<varsFinal, periodontics, widgets, metrics, nedits, streak,
                 ni_entered, saved, picked>>

\* button "Importar", a file chosen in the dialog: path tells a document of
\* ImportDocs ("doc") from a file export_file wrote ("export")
import_file(path, datos) ==
  /\ IF patient_id = NoPatient
       THEN /\ lastOp' = [op |-> "import_file", res |-> "Sin paciente",
                          note |-> "", path |-> path, datos |-> datos]
            /\ UNCHANGED <<widgets, ni_entered>>
       ELSE /\ widgets' = ImportEntries(widgets, datos).w
            /\ ni_entered' =
                 ni_entered \cup {c \in PerioSites(widgets') :
                                    widgets'[c[1]].ni[c[2]] # "N/A"}
            /\ lastOp' = [op |-> "import_file",
                          res |-> IF ImportEntries(widgets, datos).err = ""
                                    THEN "ok" ELSE "Error",
                          note |-> ImportEntries(widgets, datos).err,
                          path |-> path, datos |-> datos]
  /\ UNCHANGED <<varsFinal, periodontics, metrics, nedits, streak, exported,
                 saved, picked>>

NextPeriodonticsTab ==
  \/ save_patient
  \/ \E pid \in 1..MaxPatients : on_select(pid)
  \/ delete_patient
  \/ \E p \in DOMAIN widgets,
        field \in {"ps", "mg", "ni", "ss", "sup", "mov", "nota"},
        i \in 1..Len(sitios) :
       \E v \in WidgetInputs(widgets, p, field, i) : edit_widget(p, field, i, v)
  \/ save_all_to_db
  \/ refresh
  \/ calculate_metrics
  \/ clear_form
  \/ \E datos \in ImportDocs : import_file("doc", datos)

\* the buttons "Exportar", "Importar" and "Limpiar"
NextExportFile ==
  \/ clear_form
  \/ export_file
  \/ \E datos \in ImportDocs \cup SkipDocs : import_file("doc", datos)
  \/ \E n \in 1..Len(exported) : import_file("export", exported[n].datos)

(***************************************************************************)
(* DentalManagementSystem helpers.                                         *)
(***************************************************************************)
NoTooth == <<0, "">>

SisCells == Range(SIS_TEETH) \X Range(SIS_SURFACES)

\* self.tooth_colors.get(status, '#FFFFFF')
ColorOf(status) ==
  IF status \in DOMAIN tooth_colors THEN tooth_colors[status] ELSE "#FFFFFF"

\* save_odontogram: the status read back from a fill colour, the first state
\* of tooth_colors with that colour, 'Sano' when none has it
StatusOfColor(color) ==
  IF \E i \in 1..Len(SIS_STATES_ALL) : tooth_colors[SIS_STATES_ALL[i]] = color
    THEN SIS_STATES_ALL[CHOOSE i \in 1..Len(SIS_STATES_ALL) :
                          /\ tooth_colors[SIS_STATES_ALL[i]] = color
                          /\ \A j \in 1..(i - 1) :
                               tooth_colors[SIS_STATES_ALL[j]] # color]
    ELSE "Sano"

\* apply_surface_status on the canvas f
ApplySurface(f, tooth_number, surface, status) ==
  IF <<tooth_number, surface>> \in DOMAIN f
    THEN [f EXCEPT ![<<tooth_number, surface>>] = ColorOf(status)]
    ELSE f

\* apply_surface_status for each of the listed surfaces in turn
RECURSIVE ApplySurfaces(_, _, _, _)
ApplySurfaces(f, tooth_number, surfaces, status) ==
  IF surfaces = <<>> THEN f
  ELSE ApplySurfaces(ApplySurface(f, tooth_number, Head(surfaces), status),
                     tooth_number, Tail(surfaces), status)

\* the rows save_odontogram inserts for the canvas f
RowsOfCanvas(pid, f) ==
  {[patient_id |-> pid, tooth_number |-> cell[1],
    status |-> StatusOfColor(f[cell]), face |-> cell[2]] :
     cell \in {c \in DOMAIN f : StatusOfColor(f[c]) # "Sano"}}

\* load_odontogram without the reset to 'white'
LoadOdontogram_m(pid) ==
  IF pid = NoPatient THEN fill
  ELSE [cell \in DOMAIN fill |->
          LET rows == {r \in sis_odontogram :
                         /\ r.patient_id = pid
                         /\ r.tooth_number = cell[1]
                         /\ r.face = cell[2]}
          IN  IF rows = {} THEN fill[cell]
              ELSE ColorOf((CHOOSE r \in rows : TRUE).status)]

\* load_odontogram with current_patient_id = pid: the canvas afterwards
LoadOdontogram(pid) ==
  IF pid = NoPatient THEN fill
  ELSE [cell \in DOMAIN fill |->
          LET rows == {r \in sis_odontogram :
                         /\ r.patient_id = pid
                         /\ r.tooth_number = cell[1]
                         /\ r.face = cell[2]}
          IN  IF rows = {} THEN "white"
              ELSE ColorOf((CHOOSE r \in rows : TRUE).status)]

(***************************************************************************)
(* DentalManagementSystem: the periodontogram grid.                        *)
(***************************************************************************)
all_teeth_ALL ==
  <<18, 17, 16, 15, 14, 13, 12, 11, 21, 22, 23, 24, 25, 26, 27, 28,
    48, 47, 46, 45, 44, 43, 42, 41, 31, 32, 33, 34, 35, 36, 37, 38>>

all_teeth == SubSeq(all_teeth_ALL, 1, SisNumTeeth)

\* the variables draw_periodontogram_grid makes for a tooth: the key after
\* the tooth number and the kind, "s" StringVar or "b" BooleanVar.  They are
\* the keys of a dict; the list starts with a depth, a margin and the
\* mobility
PERIO_VARS_ALL ==
  <<[key |-> "Bucal_ps", kind |-> "s"], [key |-> "Bucal_mg", kind |-> "s"],
    [key |-> "movilidad", kind |-> "s"],
    [key |-> "Bucal_ni", kind |-> "s"],
    [key |-> "Bucal_sangrado", kind |-> "b"],
    [key |-> "Bucal_supuración", kind |-> "b"],
    [key |-> "Lingual_ps", kind |-> "s"], [key |-> "Lingual_mg", kind |-> "s"],
    [key |-> "Lingual_ni", kind |-> "s"],
    [key |-> "Lingual_sangrado", kind |-> "b"],
    [key |-> "Lingual_supuración", kind |-> "b"],
    [key |-> "furcacion", kind |-> "s"]>>

PERIO_VARS == SubSeq(PERIO_VARS_ALL, 1, PerioNumFields)

\* the columns of table periodontogram after tooth_number, each with the key
\* load_perio_measurements and save_perio_measurements look up for it
PERIO_COLUMNS ==
  <<[column |-> "ps_buccal", key |-> "Bucal_ps", type |-> "REAL"],
    [column |-> "mg_buccal", key |-> "Bucal_mg", type |-> "REAL"],
    [column |-> "ni_buccal", key |-> "Bucal_ni", type |-> "REAL"],
    [column |-> "ps_lingual", key |-> "Lingual_ps", type |-> "REAL"],
    [column |-> "mg_lingual", key |-> "Lingual_mg", type |-> "REAL"],
    [column |-> "ni_lingual", key |-> "Lingual_ni", type |-> "REAL"],
    [column |-> "bleeding_buccal", key |-> "Bucal_sangrado",
     type |-> "BOOLEAN"],
    [column |-> "suppuration_buccal", key |-> "Bucal_supuracion",
     type |-> "BOOLEAN"],
    [column |-> "bleeding_lingual", key |-> "Lingual_sangrado",
     type |-> "BOOLEAN"],
    [column |-> "suppuration_lingual", key |-> "Lingual_supuracion",
     type |-> "BOOLEAN"],
    [column |-> "mobility", key |-> "movilidad", type |-> "INTEGER"],
    [column |-> "furcation", key |-> "furcacion", type |-> "TEXT"]>>

\* None / NULL, and a value that is not None
Null == [null |-> TRUE]

Val(v) == [null |-> FALSE, v |-> v]

\* self.perio_entries[key].get() if key in self.perio_entries else None
EntryGet(e, tooth_num, key) ==
  IF <<tooth_num, key>> \in DOMAIN e THEN Val(e[<<tooth_num, key>>]) ELSE Null

\* s.replace('.', '', 1).isdigit() over the texts of the model
IsDigitsDot(s) ==
  \/ s \in DOMAIN PyFloat /\ PyFloat[s] >= 0
  \/ s = "²"

\* s.isdigit() over the texts of the model
IsDigits(s) ==
  \/ s \in DOMAIN PyInt /\ PyInt[s] >= 0
  \/ s = "²"

\* the columns the validation loop of save_perio_measurements refuses for
\* this tooth; the loop tests the six REAL columns and then the mobility,
\* which is their order in PERIO_COLUMNS
PerioInvalidColumns(e, tooth_num) ==
  {i \in 1..Len(PERIO_COLUMNS) :
     LET c == PERIO_COLUMNS[i]
         got == EntryGet(e, tooth_num, c.key)
     IN  /\ ~ got.null
         /\ \/ c.type = "REAL" /\ got.v # "" /\ ~ IsDigitsDot(got.v)
            \/ c.type = "INTEGER" /\ got.v # "" /\ ~ IsDigits(got.v)}

\* the validation loop of save_perio_measurements raises for this tooth
PerioInvalid(e, tooth_num) == PerioInvalidColumns(e, tooth_num) # {}

\* the field names of the messages of the validation loop
PERIO_LABELS ==
  [k \in {"Bucal_ps", "Bucal_mg", "Bucal_ni", "Lingual_ps", "Lingual_mg",
          "Lingual_ni", "movilidad"} |->
     CASE k = "Bucal_ps" -> "PS Bucal"
       [] k = "Bucal_mg" -> "MG Bucal"
       [] k = "Bucal_ni" -> "NI Bucal"
       [] k = "Lingual_ps" -> "PS Lingual"
       [] k = "Lingual_mg" -> "MG Lingual"
       [] k = "Lingual_ni" -> "NI Lingual"
       [] OTHER -> "Movilidad"]

\* the text of the ValueError the validation loop raises for column i of a
\* tooth
PerioMessageOf(tooth_num, i) ==
  "Valor no numérico para " \o PERIO_LABELS[PERIO_COLUMNS[i].key]
    \o " del diente " \o ToString(tooth_num)

\* the warning the validation loop shows: the first refused field of the
\* first refused tooth
PerioMessage(e) ==
  LET t == CHOOSE u \in 1..Len(all_teeth) :
             /\ PerioInvalid(e, all_teeth[u])
             /\ \A w \in 1..(u - 1) : ~ PerioInvalid(e, all_teeth[w])
      cols == PerioInvalidColumns(e, all_teeth[t])
      i == CHOOSE j \in cols : \A k \in cols : j <= k
  IN  PerioMessageOf(all_teeth[t], i)

\* float() or int() raises in the INSERT loop of save_perio_measurements for
\* this tooth
PerioRaises(e, tooth_num) ==
  \E i \in 1..Len(PERIO_COLUMNS) :
    LET c == PERIO_COLUMNS[i]
        got == EntryGet(e, tooth_num, c.key)
    IN  /\ ~ got.null
        /\ got.v # ""
        /\ \/ c.type = "REAL" /\ got.v \notin DOMAIN PyFloat
           \/ c.type = "INTEGER" /\ got.v \notin DOMAIN PyInt

\* the value save_perio_measurements binds for a column; REAL in tenths
PerioBind(c, got) ==
  CASE c.type = "REAL" ->
         IF got.null \/ got.v = "" THEN Null ELSE Val(PyFloat[got.v])
    [] c.type = "INTEGER" ->
         IF got.null \/ got.v = "" THEN Null ELSE Val(PyInt[got.v])
    [] OTHER -> got

\* the teeth the INSERT loop of save_perio_measurements gets through: all of
\* them, or those before the first one float() or int() raises for
PerioInserted(e) ==
  {t \in 1..Len(all_teeth) :
     \A u \in 1..t : ~ PerioRaises(e, all_teeth[u])}

\* the values save_perio_measurements inserts: one row for every tooth the
\* loop gets through
PerioRowsOfEntries(pid, e) ==
  {[patient_id |-> pid, tooth_number |-> all_teeth[t],
    cols |-> [i \in 1..Len(PERIO_COLUMNS) |->
                PerioBind(PERIO_COLUMNS[i],
                          EntryGet(e, all_teeth[t], PERIO_COLUMNS[i].key))]] :
     t \in PerioInserted(e)}

\* INSERT INTO periodontogram: the table has no key but its AUTOINCREMENT
\* id, so it takes a row equal to one it holds; copy tells equal rows apart
PerioInsert(rows, new) ==
  rows \cup
    {[patient_id |-> n.patient_id, tooth_number |-> n.tooth_number,
      cols |-> n.cols,
      copy |-> 1 + Cardinality({r \in rows : /\ r.patient_id = n.patient_id
                                             /\ r.tooth_number = n.tooth_number
                                             /\ r.cols = n.cols})] :
       n \in new}

\* the INSERT loop without the DELETE before it
PerioReplaceRows_m(rows, pid, e) ==
  PerioInsert(rows, PerioRowsOfEntries(pid, e))

\* the table after the DELETE of the rows of the patient and the INSERT loop
PerioReplaceRows(rows, pid, e) ==
  PerioInsert({r \in rows : r.patient_id # pid}, PerioRowsOfEntries(pid, e))

\* what load_perio_measurements sets in the variable of a column
PerioShow(c, x) ==
  CASE c.type = "REAL" -> IF x.null THEN "" ELSE StrOfReal(x.v)
    [] c.type = "INTEGER" -> IF x.null \/ x.v = 0 THEN "" ELSE StrOfInt(x.v)
    [] c.type = "TEXT" -> IF x.null THEN "" ELSE x.v
    [] OTHER -> IF x.null THEN FALSE ELSE x.v

\* the kind of the variable made for a key
EntryKind(key) ==
  PERIO_VARS[CHOOSE i \in 1..Len(PERIO_VARS) : PERIO_VARS[i].key = key].kind

\* the grid as draw_periodontogram_grid leaves it
EmptyEntries ==
  [k \in Range(all_teeth) \X {PERIO_VARS[i].key : i \in 1..Len(PERIO_VARS)} |->
     IF EntryKind(k[2]) = "b" THEN FALSE ELSE ""]

\* load_perio_measurements with current_patient_id = pid: only the
\* variables of teeth that have a row are set
LoadPerio(pid) ==
  IF pid = NoPatient THEN perio_entries
  ELSE [k \in DOMAIN perio_entries |->
          LET rows == {r \in periodontogram :
                         r.patient_id = pid /\ r.tooth_number = k[1]}
              cols == {i \in 1..Len(PERIO_COLUMNS) : PERIO_COLUMNS[i].key = k[2]}
          IN  IF rows = {} \/ cols = {} THEN perio_entries[k]
              ELSE LET i == CHOOSE j \in cols : TRUE
                   IN  PerioShow(PERIO_COLUMNS[i],
                                 (CHOOSE r \in rows : TRUE).cols[i])]

(***************************************************************************)
(* Handlers of sistema_odontologico.py                                     *)
(***************************************************************************)
\* PatientDialog.save of a new patient: INSERT, commit, load_patients (which
\* rebuilds the tree and so drops its selection)
PatientDialog_save ==
  /\ sis_next_id <= MaxPatients
  /\ sis_patients' = sis_patients \cup {sis_next_id}
  /\ sis_next_id' = sis_next_id + 1
  /\ tree_selection' = NoPatient
  /\ committed_periodontogram' = periodontogram
  /\ lastOp' = [op |-> "PatientDialog.save", res |-> "ok", note |-> ""]
  /\ UNCHANGED <<sis_odontogram, current_patient_id, selected_tooth, fill,
                 periodontogram, perio_entries, nedits, streak, saved>>

\* on_patient_select of the row the user picks in the tree
on_patient_select(pid) ==
  /\ pid \in sis_patients
  /\ tree_selection' = pid
  /\ current_patient_id' = pid
  /\ fill' = LoadOdontogram(pid)
  /\ perio_entries' = LoadPerio(pid)
  /\ lastOp' = [op |-> "on_patient_select", res |-> "ok", note |-> ""]
  /\ UNCHANGED <<sis_patients, sis_next_id, sis_odontogram, periodontogram,
                 committed_periodontogram, selected_tooth, nedits, streak,
                 saved>>

\* the columns of table patients (init_database)
SisPatientsColumns ==
  {"id", "name", "surname", "dni", "phone", "email", "address", "birth_date",
   "created_date"}

\* delete_patient, confirmed: DELETE FROM <table> WHERE patient_id = ? for
\* each table in turn; the statement on 'patients' names a column the table
\* has not, raises OperationalError and ends the handler before the commit
\* and load_patients
sis_delete_patient ==
  /\ tree_selection # NoPatient
  /\ sis_odontogram' = {r \in sis_odontogram : r.patient_id # tree_selection}
  /\ periodontogram' = {r \in periodontogram : r.patient_id # tree_selection}
  /\ IF "patient_id" \in SisPatientsColumns
       THEN /\ sis_patients' = sis_patients \ {tree_selection}
            /\ tree_selection' = NoPatient
            /\ committed_periodontogram' = periodontogram'
            /\ lastOp' = [op |-> "sis.delete_patient", res |-> "ok", note |-> ""]
       ELSE /\ lastOp' = [op |-> "sis.delete_patient",
                          res |-> "OperationalError", note |-> ""]
            /\ UNCHANGED <<sis_patients, tree_selection,
                           committed_periodontogram>>
  /\ saved' = [p \in DOMAIN saved \ {tree_selection} |-> saved[p]]
  /\ UNCHANGED <<sis_next_id, current_patient_id, selected_tooth, fill,
                 perio_entries, nedits, streak>>

\* left click on a surface
select_tooth_surface(tooth_number, surface) ==
  /\ selected_tooth' = <<tooth_number, surface>>
  /\ lastOp' = [op |-> "select_tooth_surface", res |-> "ok", note |-> ""]
  /\ UNCHANGED <<sis_patients, sis_next_id, sis_odontogram,
                 current_patient_id, tree_selection, fill, varsSisPerio,
                 nedits, streak, saved>>

\* right click on a surface and a status of show_surface_menu
apply_surface_status(tooth_number, surface, status) ==
  /\ nedits < SisMaxEdits
  /\ nedits' = nedits + 1
  /\ fill' = ApplySurface(fill, tooth_number, surface, status)
  /\ lastOp' = [op |-> "apply_surface_status", res |-> "ok", note |-> ""]
  /\ UNCHANGED <<sis_patients, sis_next_id, sis_odontogram,
                 current_patient_id, tree_selection, selected_tooth,
                 varsSisPerio, streak, saved>>

\* button "Aplicar Estado" with status picked in the combobox
apply_tooth_status(status) ==
  /\ nedits < SisMaxEdits
  /\ nedits' = nedits + 1
  /\ IF selected_tooth = NoTooth
       THEN /\ lastOp' = [op |-> "apply_tooth_status", res |-> "Sin diente", note |-> ""]
            /\ UNCHANGED fill
       ELSE IF current_patient_id = NoPatient
         THEN /\ lastOp' = [op |-> "apply_tooth_status",
                            res |-> "Sin paciente", note |-> ""]
              /\ UNCHANGED fill
         ELSE /\ fill' = ApplySurface(fill, selected_tooth[1],
                                      selected_tooth[2], status)
              /\ lastOp' = [op |-> "apply_tooth_status", res |-> "ok", note |-> ""]
  /\ UNCHANGED <<sis_patients, sis_next_id, sis_odontogram,
                 current_patient_id, tree_selection, selected_tooth,
                 varsSisPerio, streak, saved>>

\* a list of surfaces that stops after the first
WholeToothSurfaces_m == <<"O">>

\* surfaces = ['O', 'M', 'D', 'V', 'P'] of apply_to_whole_tooth and clear_tooth
WholeToothSurfaces == SIS_SURFACES_ALL

\* button "Aplicar a Todo el Diente" with status picked in the combobox
apply_to_whole_tooth(status) ==
  /\ nedits < SisMaxEdits
  /\ nedits' = nedits + 1
  /\ IF selected_tooth = NoTooth
       THEN /\ lastOp' = [op |-> "apply_to_whole_tooth", res |-> "Sin diente", note |-> ""]
            /\ UNCHANGED fill
       ELSE /\ fill' = ApplySurfaces(fill, selected_tooth[1],
                                     WholeToothSurfaces, status)
            /\ lastOp' = [op |-> "apply_to_whole_tooth", res |-> "ok",
                          note |-> status]
  /\ UNCHANGED <<sis_patients, sis_next_id, sis_odontogram,
                 current_patient_id, tree_selection, selected_tooth,
                 varsSisPerio, streak, saved>>

\* button "Limpiar Diente"
clear_tooth ==
  /\ nedits < SisMaxEdits
  /\ nedits' = nedits + 1
  /\ IF selected_tooth = NoTooth
       THEN /\ lastOp' = [op |-> "clear_tooth", res |-> "Sin diente", note |-> ""]
            /\ UNCHANGED fill
       ELSE /\ fill' = ApplySurfaces(fill, selected_tooth[1],
                                     WholeToothSurfaces, "Sano")
            /\ lastOp' = [op |-> "clear_tooth", res |-> "ok", note |-> ""]
  /\ UNCHANGED <<sis_patients, sis_next_id, sis_odontogram,
                 current_patient_id, tree_selection, selected_tooth,
                 varsSisPerio, streak, saved>>

\* button "Guardar"
save_odontogram ==
  /\ IF current_patient_id = NoPatient
       THEN /\ lastOp' = [op |-> "save_odontogram", res |-> "Sin paciente", note |-> ""]
            /\ UNCHANGED <<sis_odontogram, saved, committed_periodontogram>>
       ELSE /\ sis_odontogram' =
                 {r \in sis_odontogram : r.patient_id # current_patient_id}
                   \cup RowsOfCanvas(current_patient_id, fill)
            /\ saved' = SavedAfter(current_patient_id,
                                   [cell \in DOMAIN fill |->
                                      StatusOfColor(fill[cell])])
            /\ committed_periodontogram' = periodontogram
            /\ lastOp' = [op |-> "save_odontogram", res |-> "ok", note |-> ""]
  /\ UNCHANGED <<sis_patients, sis_next_id, current_patient_id,
                 tree_selection, selected_tooth, fill, periodontogram,
                 perio_entries, nedits, streak>>

NextSisOdontogram ==
  \/ PatientDialog_save
  \/ \E pid \in 1..MaxPatients : on_patient_select(pid)
  \/ sis_delete_patient
  \/ \E cell \in SisCells : select_tooth_surface(cell[1], cell[2])
  \/ \E cell \in SisCells, status \in Range(SIS_STATES) :
       apply_surface_status(cell[1], cell[2], status)
  \/ \E status \in Range(SIS_STATES) : apply_tooth_status(status)
  \/ \E status \in Range(SIS_STATES) : apply_to_whole_tooth(status)
  \/ clear_tooth
  \/ save_odontogram

\* the texts typed into an Entry of the periodontogram grid: a number, a
\* word, the superscript two, a negative number, a zero, a large number
SIS_PERIO_TEXTS == {"", "3", "x", "²", "-1", "0", "7"}

\* the texts of SIS_PERIO_TEXTS typed into the Entry of a key
PerioTextsOf(key) ==
  CASE key = "Bucal_ps" -> {"", "3", "x", "²"}
    [] key = "Bucal_mg" -> {"", "-1"}
    [] key = "movilidad" -> {"", "0", "7"}
    [] OTHER -> {"", "3"}

\* what the user can leave in a variable of the grid
EntryInputs(e, k) ==
  IF EntryKind(k[2]) = "b" THEN {~ e[k]} ELSE PerioTextsOf(k[2]) \ {e[k]}

\* the user edits one Entry or Checkbutton of the grid (Tk writes the
\* variable)
edit_perio_entry(k, v) ==
  /\ nedits < PerioMaxEdits
  /\ nedits' = nedits + 1
  /\ perio_entries' = [perio_entries EXCEPT ![k] = v]
  /\ lastOp' = [op |-> "edit_perio_entry", res |-> "ok", note |-> ""]
  /\ UNCHANGED <<varsSis, periodontogram, committed_periodontogram, streak,
                 saved>>

\* button "Guardar Periodontograma"
save_perio_measurements ==
  /\ IF current_patient_id = NoPatient
       THEN /\ lastOp' = [op |-> "save_perio_measurements",
                          res |-> "Sin paciente", note |-> ""]
            /\ UNCHANGED <<periodontogram, committed_periodontogram>>
       ELSE IF \E t \in 1..Len(all_teeth) :
                 PerioInvalid(perio_entries, all_teeth[t])
         THEN /\ lastOp' = [op |-> "save_perio_measurements",
                            res |-> "ValueError",
                            note |-> PerioMessage(perio_entries)]
              /\ UNCHANGED <<periodontogram, committed_periodontogram>>
         ELSE /\ periodontogram' =
                   PerioReplaceRows(periodontogram, current_patient_id,
                                    perio_entries)
              /\ IF \E t \in 1..Len(all_teeth) :
                      PerioRaises(perio_entries, all_teeth[t])
                   THEN \* float() raises out of the handler: no commit and
                        \* no rollback, the transaction stays open
                        /\ lastOp' = [op |-> "save_perio_measurements",
                                      res |-> "uncaught",
                                      note |-> "ValueError"]
                        /\ UNCHANGED committed_periodontogram
                   ELSE /\ lastOp' =
                             [op |-> "save_perio_measurements", res |-> "ok",
                              note |-> IF \E r \in periodontogram :
                                            r.patient_id = current_patient_id
                                         THEN "replaced" ELSE ""]
                        /\ committed_periodontogram' = periodontogram'
  /\ UNCHANGED <<varsSis, perio_entries, nedits, streak, saved>>

NextSisPeriodontogram ==
  \/ PatientDialog_save
  \/ \E pid \in 1..MaxPatients : on_patient_select(pid)
  \/ sis_delete_patient
  \/ \E k \in DOMAIN perio_entries :
       \E v \in EntryInputs(perio_entries, k) : edit_perio_entry(k, v)
  \/ save_perio_measurements

(***************************************************************************)
(* The programs after construction on new database files.                  *)
(***************************************************************************)
\* App.__init__ after init_db
InitFinal ==
  /\ patients = {}
  /\ next_id = 1
  /\ odontogram = {}
  /\ patient_id = NoPatient
  /\ esquema = "adulto"
  /\ data = EmptyData
  /\ rect_fill = _draw("adulto", EmptyData)

\* PeriodonticsTab.__init__ on the new periodontics table
InitPerio ==
  /\ periodontics = {}
  /\ widgets = ClearForm
  /\ metrics = [profundidad_media |-> NoMetric, nivel_insercion |-> NoMetric,
                porcentaje_sas |-> NoMetric, porcentaje_placa |-> NoMetric]
  /\ ni_entered = {}
  /\ exported = <<>>

\* DentalManagementSystem.__init__
InitSis ==
  /\ sis_patients = {}
  /\ sis_next_id = 1
  /\ sis_odontogram = {}
  /\ current_patient_id = NoPatient
  /\ tree_selection = NoPatient
  /\ selected_tooth = NoTooth
  /\ fill = [cell \in SisCells |-> "white"]
  /\ periodontogram = {}
  /\ committed_periodontogram = {}
  /\ perio_entries = EmptyEntries

\* the inner dicts and the working copies on_click can build for a scheme
InnerDicts ==
  UNION {[C -> Range(ODONTO_STATES)] : C \in (SUBSET Range(SURFACES)) \ {{}}}

Charts(esq) ==
  UNION {[P -> InnerDicts] : P \in SUBSET Range(_grid_piezas(esq))}

\* a session on the chart of a first patient without a saved odontogram,
\* taken up at any working copy that clicks build
InitChart ==
  /\ patients = {1}
  /\ next_id = 2
  /\ odontogram = {}
  /\ patient_id = 1
  /\ esquema \in ESQUEMAS
  /\ data \in Charts(esquema)
  /\ rect_fill = _draw(esquema, data)

\* the widgets of a tooth with any depth, margin, attachment level and
\* bleeding flag out of a few
GridTeeth ==
  {[DefaultTooth EXCEPT !.ps = ps, !.mg = mg, !.ni = ni, !.ss = ss] :
     ps \in [1..Len(sitios) -> {"0", "3.5"}], mg \in {"0", "1"},
     ni \in [1..Len(sitios) -> {"N/A", "0"}],
     ss \in [1..Len(sitios) -> {0, 1}]}

\* self.widgets as calculate_metrics can be handed it: a grid built for any
\* of the teeth, for none of them too
Grids == UNION {[P -> GridTeeth] : P \in SUBSET Range(PerioPiezas)}

\* calculate_metrics taken as a function of the grid
InitGrid ==
  /\ periodontics = {}
  /\ widgets \in Grids
  /\ metrics = [profundidad_media |-> NoMetric, nivel_insercion |-> NoMetric,
                porcentaje_sas |-> NoMetric, porcentaje_placa |-> NoMetric]
  /\ ni_entered = {c \in PerioSites(widgets) : widgets[c[1]].ni[c[2]] # "N/A"}
  /\ exported = <<>>

\* the widgets of a tooth with any text or flag out of two in every field
ExportTeeth ==
  {[ps |-> ps, mg |-> mg, ni |-> ni, ss |-> ss, sup |-> sup, mov |-> mov,
    nota |-> nota] :
     ps \in [1..Len(sitios) -> {"0", "3.5"}], mg \in {"0", "1"},
     ni \in [1..Len(sitios) -> {"N/A", "0"}],
     ss \in [1..Len(sitios) -> {0, 1}], sup \in [1..Len(sitios) -> {0, 1}],
     mov \in {"0", "7"}, nota \in {"", "n"}}

\* a session on the periodontal grid of a first patient, taken up at any
\* grid the widgets build
InitExport ==
  /\ patients = {1}
  /\ next_id = 2
  /\ odontogram = {}
  /\ patient_id = 1
  /\ esquema = "adulto"
  /\ data = EmptyData
  /\ rect_fill = _draw("adulto", EmptyData)
  /\ periodontics = {}
  /\ widgets \in [Range(PerioPiezas) -> ExportTeeth]
  /\ metrics = [profundidad_media |-> NoMetric, nivel_insercion |-> NoMetric,
                porcentaje_sas |-> NoMetric, porcentaje_placa |-> NoMetric]
  /\ ni_entered = {c \in PerioSites(widgets) : widgets[c[1]].ni[c[2]] # "N/A"}
  /\ exported = <<>>

Init ==
  /\ \/ /\ focus \in {"OdontogramTab", "PeriodonticsTab", "sis_odontogram",
                     "sis_periodontogram"}
        /\ InitFinal
        /\ InitPerio
     \/ focus = "on_click" /\ InitChart /\ InitPerio
     \/ focus = "calculate_metrics" /\ InitFinal /\ InitGrid
     \/ focus = "export_file" /\ InitExport
  /\ InitSis
  /\ nedits = 0
  /\ lastOp = [op |-> "init", res |-> "ok", note |-> ""]
  /\ streak = NoStreak
  /\ saved = <<>>
  /\ picked = esquema

NextOnClick ==
  \E item \in (DOMAIN rect_fill) \cup {<<"label", "">>} : on_click(item)

Next ==
  \/ /\ focus = "OdontogramTab"
     /\ NextOdontogramTab
     /\ UNCHANGED <<focus, varsSis, varsSisPerio>>
  \/ /\ focus = "on_click"
     /\ NextOnClick
     /\ UNCHANGED <<focus, varsSis, varsSisPerio>>
  \/ /\ focus = "PeriodonticsTab"
     /\ NextPeriodonticsTab
     /\ UNCHANGED <<focus, varsSis, varsSisPerio>>
  \/ /\ focus = "calculate_metrics"
     /\ calculate_metrics
     /\ UNCHANGED <<focus, varsSis, varsSisPerio>>
  \/ /\ focus = "export_file"
     /\ NextExportFile
     /\ UNCHANGED <<focus, varsSis, varsSisPerio>>
  \/ /\ focus = "sis_odontogram"
     /\ NextSisOdontogram
     /\ UNCHANGED <<focus, varsFinal, varsPerio, picked>>
  \/ /\ focus = "sis_periodontogram"
     /\ NextSisPeriodontogram
     /\ UNCHANGED <<focus, varsFinal, varsPerio, picked>>

Spec == Init /\ [][Next]_vars

(***************************************************************************)
(* Properties.                                                             *)
(***************************************************************************)
AllPiezas == Range(ADULTO_PIEZAS) \cup Range(TEMPORAL_PIEZAS)

AllCells == AllPiezas \X Range(SURFACES)

ActiveCells == Range(_grid_piezas(esquema)) \X Range(SURFACES)

\* the cyclic order of the statuses, as the specification gives it
CycleOrder(st) ==
  CASE st = "Sano"         -> "Caries"
    [] st = "Caries"       -> "Restauracion"
    [] st = "Restauracion" -> "Ausente"
    [] st = "Ausente"      -> "Implante"
    [] st = "Implante"     -> "Sano"

InFinal == focus \in {"OdontogramTab", "on_click"}

InSis == focus = "sis_odontogram"

\* C1: with a patient selected, a click on a (tooth, surface) of the active
\* scheme moves that surface to the next status of the cycle Sano -> Caries
\* -> Restauracion -> Ausente -> Implante -> Sano (unset counting as Sano)
\* and leaves the status of every other (tooth, surface) as it was.
C1_ClickAdvancesOneSurface ==
  [][\A item \in ActiveCells :
       (InFinal /\ patient_id # NoPatient /\ on_click(item)) =>
         /\ GetStatus(data', item[1], item[2]) =
              CycleOrder(GetStatus(data, item[1], item[2]))
         /\ \A other \in AllCells \ {item} :
              GetStatus(data', other[1], other[2]) =
                GetStatus(data, other[1], other[2])]_vars

\* a click has just moved a surface to Caries while another surface of the
\* chart holds a status of its own
C1_Witness ==
  /\ focus = "OdontogramTab"
  /\ lastOp.op = "on_click" /\ lastOp.res = "ok"
  /\ streak.n = 1
  /\ GetStatus(data, streak.item[1], streak.item[2]) = "Caries"
  /\ \E other \in ActiveCells \ {streak.item} :
       GetStatus(data, other[1], other[2]) \notin {"Sano", "Caries"}

\* the persisted (tooth, surface) rows of a patient in dental_clinic.db
SisRowsOf(pid, cell) ==
  {r \in sis_odontogram :
     r.patient_id = pid /\ r.tooth_number = cell[1] /\ r.face = cell[2]}

\* C2: in every reachable state every (tooth, surface) of the chart has one
\* status of the known set, no handler ends in an error of a status lookup,
\* and a surface with no record (not in the working copy, no persisted row
\* when the chart was loaded) reads Sano.
C2_EverySurfaceHasOneStatus ==
  /\ InFinal =>
       /\ \A cell \in ActiveCells :
            /\ GetStatus(data, cell[1], cell[2]) \in Range(ODONTO_STATES)
            /\ (cell[1] \notin DOMAIN data) =>
                 GetStatus(data, cell[1], cell[2]) = "Sano"
       /\ lastOp.res \notin {"ValueError", "KeyError"}
       /\ (/\ lastOp.op \in {"on_select", "_reload", "save_patient"}
           /\ patient_id # NoPatient
           /\ OdontogramRows(patient_id) = {}) =>
            \A cell \in AllCells : GetStatus(data, cell[1], cell[2]) = "Sano"
  /\ InSis =>
       /\ \A cell \in SisCells :
            StatusOfColor(fill[cell]) \in Range(SIS_STATES_ALL)
       /\ lastOp.op = "on_patient_select" =>
            \A cell \in SisCells :
              SisRowsOf(current_patient_id, cell) = {} =>
                StatusOfColor(fill[cell]) = "Sano"

\* a patient without any persisted row was selected after the chart had been
\* edited and saved for another patient
C2_Witness ==
  /\ InSis
  /\ lastOp.op = "on_patient_select"
  /\ nedits > 0
  /\ \A cell \in SisCells : SisRowsOf(current_patient_id, cell) = {}
  /\ sis_odontogram # {}

\* C3: five clicks in a row on one (tooth, surface), nothing in between,
\* bring the surface back to the status it started from, and fewer than five
\* do not.
C3_FiveClicksReturn ==
  InFinal =>
    /\ streak.n = 5 =>
         GetStatus(data, streak.item[1], streak.item[2]) = streak.start
    /\ streak.n \in 1..4 =>
         GetStatus(data, streak.item[1], streak.item[2]) # streak.start

\* five clicks in a row were made on a surface that started from Ausente
C3_Witness ==
  /\ focus = "on_click"
  /\ streak.n = 5
  /\ streak.start = "Ausente"
  /\ lastOp.op = "on_click" /\ lastOp.res = "ok"

\* C4: saving the working copy of a patient and loading that patient again
\* gives back, for every (tooth, surface), the status of the saved working
\* copy, Sano where it had none; nothing of an earlier snapshot survives and
\* no unset entry is materialized.
C4_SaveLoadRoundTrip ==
  /\ (InFinal /\ lastOp.op = "save" /\ lastOp.res = "ok") =>
       /\ LoadResult(patient_id, esquema)[2] = data
       /\ LoadResult(patient_id, esquema)[1] = esquema
  /\ (/\ InFinal
      /\ lastOp.op \in {"on_select", "_reload"}
      /\ patient_id \in DOMAIN saved) =>
       /\ data = saved[patient_id].data
       /\ \A cell \in AllCells :
            GetStatus(data, cell[1], cell[2]) =
              GetStatus(saved[patient_id].data, cell[1], cell[2])
  /\ (/\ InSis
      /\ lastOp.op = "on_patient_select"
      /\ current_patient_id \in DOMAIN saved) =>
       \A cell \in SisCells :
         StatusOfColor(fill[cell]) = saved[current_patient_id][cell]

\* a patient saved with one surface set and another unset was loaded again
\* after another patient had been shown
C4_Witness ==
  /\ focus = "OdontogramTab"
  /\ lastOp.op = "on_select"
  /\ patient_id \in DOMAIN saved
  /\ Cardinality(DOMAIN saved) > 1
  /\ \E c1, c2 \in ActiveCells :
       /\ GetStatus(data, c1[1], c1[2]) = "Restauracion"
       /\ c2[1] \in DOMAIN data /\ c2[2] \notin DOMAIN data[c2[1]]

\* C5 (as claimed): snapshots are kept per patient and per scheme; a save
\* made under the scheme the user works under replaces no snapshot of
\* another (patient, scheme).
C5_SnapshotPerPatientAndScheme ==
  [][(focus = "OdontogramTab" /\ lastOp'.op = "save" /\ lastOp'.res = "ok") =>
       \A r \in odontogram :
         (r.patient_id # patient_id \/ r.esquema # picked) =>
           r \in odontogram']_vars

\* C6 (as claimed): after the user picks scheme s with a radio button the
\* active scheme is s and the working copy is empty or the snapshot kept for
\* scheme s.
C6_SchemeSwitchTakesEffect ==
  (focus = "OdontogramTab" /\ lastOp.op = "_reload") =>
    /\ esquema = lastOp.res
    /\ \/ data = EmptyData
       \/ \E r \in OdontogramRows(patient_id) :
            r.esquema = lastOp.res /\ data = JsonLoads(r.data_json)

\* what the store holds for a patient: the decoded snapshot, or nothing
Persisted(pid) ==
  IF OdontogramRows(pid) = {} THEN EmptyData
  ELSE JsonLoads((CHOOSE r \in OdontogramRows(pid) : TRUE).data_json)

\* C7: after every scheme switch the working copy is the persisted snapshot
\* of the patient (empty when there is none), so edits that were not saved
\* are gone, and it holds no tooth outside the active scheme.
C7_SwitchDiscardsUnsavedEdits ==
  (focus = "OdontogramTab" /\ lastOp.op = "_reload") =>
    /\ patient_id # NoPatient => data = Persisted(patient_id)
    /\ patient_id = NoPatient => data = EmptyData
    /\ DOMAIN data \subseteq Range(_grid_piezas(esquema))

\* a scheme switch has just discarded edits that were not saved, for a
\* patient who has a snapshot
C7_Witness ==
  /\ focus = "OdontogramTab"
  /\ lastOp.op = "_reload" /\ lastOp.note = "dirty"
  /\ patient_id # NoPatient
  /\ OdontogramRows(patient_id) # {}
  /\ data # EmptyData

\* the persisted odontogram and periodontal records of both programs
PersistedStores == <<odontogram, periodontics, sis_odontogram, periodontogram>>

\* the explicit save operations
SaveOps ==
  {"save", "save_odontogram", "save_all_to_db", "save_perio_measurements"}

\* the editing operations and the patient and scheme switches
EditAndSwitchOps ==
  {"on_click", "apply_surface_status", "apply_tooth_status",
   "apply_to_whole_tooth", "clear_tooth", "clear_form", "import_file",
   "calculate_metrics", "edit_widget", "edit_perio_entry",
   "select_tooth_surface", "refresh", "on_select", "save_patient",
   "on_patient_select", "_reload"}

PerioPersisted(pid, k) ==
  LET rows == {r \in periodontogram :
                 r.patient_id = pid /\ r.tooth_number = k[1]}
      cols == {i \in 1..Len(PERIO_COLUMNS) : PERIO_COLUMNS[i].key = k[2]}
  IN  IF rows = {} \/ cols = {} THEN EmptyEntries[k]
      ELSE PerioShow(PERIO_COLUMNS[CHOOSE j \in cols : TRUE],
                     (CHOOSE r \in rows : TRUE).cols[CHOOSE j \in cols : TRUE])

\* C9 (as claimed): right after a switch from one patient to another every
\* tooth-chart cell and every periodontal field shows the new patient's
\* persisted value, or the default where that patient has none; nothing
\* entered or loaded for the patient shown before remains.
C9_PatientSwitchReloads ==
  [][/\ (/\ focus \in {"OdontogramTab", "PeriodonticsTab"}
         /\ patient_id # NoPatient
         /\ patient_id' \notin {NoPatient, patient_id}) =>
          /\ data' = Persisted(patient_id')
          /\ rect_fill' = _draw(esquema', data')
          /\ widgets' = FormOfRows(patient_id')
     /\ (/\ focus \in {"sis_odontogram", "sis_periodontogram"}
         /\ current_patient_id # NoPatient
         /\ current_patient_id' \notin {NoPatient, current_patient_id}) =>
          /\ \A cell \in SisCells :
               StatusOfColor(fill'[cell]) =
                 IF SisRowsOf(current_patient_id', cell) = {} THEN "Sano"
                 ELSE (CHOOSE r \in SisRowsOf(current_patient_id', cell) :
                         TRUE).status
          /\ \A k \in DOMAIN perio_entries :
               perio_entries'[k] = PerioPersisted(current_patient_id', k)]_vars

\* C10 (as claimed): a mutating operation of the tooth chart or of the
\* periodontal grid invoked with no patient selected is rejected and leaves
\* the working copy, the displayed chart and the persisted store unchanged.
C10_NoPatientRejectsMutation ==
  [][(\/ /\ focus \in {"OdontogramTab", "PeriodonticsTab"}
         /\ patient_id = NoPatient
         /\ lastOp'.op \in {"on_click", "save", "save_all_to_db",
                            "import_file", "clear_form"}
      \/ /\ focus \in {"sis_odontogram", "sis_periodontogram"}
         /\ current_patient_id = NoPatient
         /\ lastOp'.op \in {"apply_tooth_status", "apply_surface_status",
                            "apply_to_whole_tooth", "clear_tooth",
                            "save_odontogram", "save_perio_measurements"})
       => /\ lastOp'.res # "ok"
          /\ UNCHANGED <<data, rect_fill, widgets, fill, perio_entries,
                         PersistedStores>>]_vars

(***************************************************************************)
(* The periodontal record.                                                 *)
(***************************************************************************)
\* the teeth that have a committed row of the two-face grid for a patient
CommittedTeeth(pid) ==
  {r.tooth_number : r \in {q \in committed_periodontogram :
                             q.patient_id = pid}}

\* the (tooth, site) pairs that have a row of the six-site grid for a
\* patient; save_all_to_db writes under "with get_conn()", so the table
\* only ever holds what a finished save left
StoredSites(pid) ==
  {<<r.pieza, r.sitio>> : r \in {q \in periodontics : q.patient_id = pid}}

\* C11 (as claimed): saving the periodontal record is atomic per patient:
\* what is committed for a patient is the record of a whole save (a row for
\* every tooth, or every tooth and site, of the grid) or nothing, never a
\* record that was only partly replaced.
C11_PerioSaveIsAtomic ==
  \A pid \in 1..MaxPatients :
    /\ CommittedTeeth(pid) \in {{}, Range(all_teeth)}
    /\ StoredSites(pid) \in {{}, Range(PerioPiezas) \X Range(sitios)}

\* C12 (as claimed): the store holds at most one periodontal record for a
\* (patient, tooth, site) of the six-site grid and for a (patient, tooth) of
\* the two-face grid: saving again replaces the record, it never adds a
\* second one.
C12_OneRecordPerToothAndSite ==
  /\ \A r1, r2 \in periodontics :
       (/\ r1.patient_id = r2.patient_id
        /\ r1.pieza = r2.pieza
        /\ r1.sitio = r2.sitio) => r1 = r2
  /\ \A T \in {periodontogram, committed_periodontogram} :
       \A r1, r2 \in T :
         (r1.patient_id = r2.patient_id /\ r1.tooth_number = r2.tooth_number)
           => r1 = r2

\* a save of the two-face grid over the record of an earlier save, with a
\* depth entered
C12_Witness ==
  /\ lastOp.op = "save_perio_measurements"
  /\ lastOp.res = "ok"
  /\ lastOp.note = "replaced"
  /\ {r.tooth_number : r \in {q \in periodontogram :
                                q.patient_id = current_patient_id}}
       = Range(all_teeth)
  /\ \E r \in periodontogram :
       r.patient_id = current_patient_id /\ ~ r.cols[1].null

RECURSIVE SumMargins(_, _)
\* the margins of the teeth of the sites in cells, added up, in tenths
SumMargins(w, cells) ==
  IF cells = {} THEN 0
  ELSE LET c == CHOOSE x \in cells : TRUE
       IN  _to_float(w[c[1]].mg) + SumMargins(w, cells \ {c})

\* no site of the form has an attachment level entered
AllSitesNA(w) == \A c \in PerioSites(w) : w[c[1]].ni[c[2]] = "N/A"

\* C13 (as claimed): for a site whose NI field is 'N/A', the attachment
\* level save_all_to_db binds for its row is the row's depth minus the row's
\* margin, and the mean attachment level calculate_metrics shows over a grid
\* of such sites is the mean of depth minus margin.
C13_AttachmentLevelDefault ==
  /\ \A r \in PerioRowsOf(patient_id, widgets) :
       LET i == CHOOSE j \in 1..Len(sitios) : sitios[j] = r.sitio
       IN  widgets[r.pieza].ni[i] = "N/A" => r.ni = r.ps - r.mg
  /\ (/\ lastOp.op = "calculate_metrics"
      /\ PerioSites(widgets) # {}
      /\ AllSitesNA(widgets)) =>
       metrics.nivel_insercion =
         <<"%.2f",
           RoundDiv(10 * (SumSites(widgets, PerioSites(widgets), "ps")
                            - SumMargins(widgets, PerioSites(widgets))),
                    Cardinality(PerioSites(widgets)))>>

\* depth '3.5' and margin '1' with NI left at 'N/A', and the metrics
\* calculated: the row to save has NI 2.5
C13_Witness ==
  /\ focus = "PeriodonticsTab"
  /\ lastOp.op = "calculate_metrics"
  /\ AllSitesNA(widgets)
  /\ widgets["18"].ps[1] = "3.5"
  /\ widgets["18"].mg = "1"
  /\ \E r \in PerioRowsOf(patient_id, widgets) :
       r.pieza = "18" /\ r.sitio = sitios[1] /\ r.ni = 25
  /\ metrics.nivel_insercion[2] > 0

IsZeroText(s) == s \in DOMAIN PyFloat /\ PyFloat[s] = 0

\* C15 (as claimed): 'no reading' and 'reading 0' stay distinct through a
\* save followed by a load: what was 'N/A' or empty when saved is 'N/A' or
\* empty when loaded, and what was 0 when saved is 0 when loaded (NI of the
\* six-site grid; the text fields of the two-face grid).
C15_NoReadingIsNotZero ==
  [][/\ (/\ focus = "PeriodonticsTab"
         /\ patient_id # NoPatient
         /\ lastOp.op = "save_all_to_db"
         /\ lastOp'.op = "refresh") =>
          \A c \in PerioSites(widgets) :
            LET before == widgets[c[1]].ni[c[2]]
                after == widgets'[c[1]].ni[c[2]]
            IN  /\ before = "N/A" => after = "N/A"
                /\ IsZeroText(before) => IsZeroText(after)
     /\ (/\ focus = "sis_periodontogram"
         /\ lastOp.op = "save_perio_measurements"
         /\ lastOp.res = "ok"
         /\ lastOp'.op = "on_patient_select"
         /\ current_patient_id' = current_patient_id) =>
          \A k \in DOMAIN perio_entries :
            EntryKind(k[2]) = "s" =>
              /\ perio_entries[k] = "" => perio_entries'[k] = ""
              /\ IsZeroText(perio_entries[k]) => IsZeroText(perio_entries'[k])
    ]_vars

\* the columns of the two-face grid that hold a depth or a margin
DepthAndMarginColumns ==
  {i \in 1..Len(PERIO_COLUMNS) :
     PERIO_COLUMNS[i].key \in {"Bucal_ps", "Bucal_mg", "Lingual_ps",
                               "Lingual_mg"}}

\* a depth or margin of the two-face grid that is filled in and is not a
\* number: column i of tooth t
NotANumber(e, t, i) ==
  /\ i \in DepthAndMarginColumns
  /\ <<t, PERIO_COLUMNS[i].key>> \in DOMAIN e
  /\ e[<<t, PERIO_COLUMNS[i].key>>] # ""
  /\ e[<<t, PERIO_COLUMNS[i].key>>] \notin DOMAIN PyFloat

\* C16 (as claimed): a save of a grid in which a probing depth or a gingival
\* margin is not a number is rejected with an error that names an offending
\* tooth and field, and the grid and the persisted records are left as they
\* were.
C16_NonNumericIsRejected ==
  [][/\ (/\ focus = "sis_periodontogram"
         /\ current_patient_id # NoPatient
         /\ lastOp'.op = "save_perio_measurements"
         /\ \E t \in Range(all_teeth), i \in DepthAndMarginColumns :
              NotANumber(perio_entries, t, i)) =>
          /\ lastOp'.res = "ValueError"
          /\ \E t \in Range(all_teeth), i \in DepthAndMarginColumns :
               /\ NotANumber(perio_entries, t, i)
               /\ lastOp'.note = PerioMessageOf(t, i)
          /\ UNCHANGED <<perio_entries, periodontogram,
                         committed_periodontogram>>
     /\ (/\ focus = "PeriodonticsTab"
         /\ patient_id # NoPatient
         /\ lastOp'.op = "save_all_to_db"
         /\ \E c \in PerioSites(widgets) :
              \/ widgets[c[1]].ps[c[2]] \notin DOMAIN PyFloat
              \/ widgets[c[1]].mg \notin DOMAIN PyFloat) =>
          /\ lastOp'.res = "ValueError"
          /\ UNCHANGED <<widgets, periodontics>>
    ]_vars

\* a text that reads as a negative number
IsNegativeText(s) == s \in DOMAIN PyFloat /\ PyFloat[s] < 0

\* the margin columns of the two-face grid
MarginColumns ==
  {i \in 1..Len(PERIO_COLUMNS) :
     PERIO_COLUMNS[i].key \in {"Bucal_mg", "Lingual_mg"}}

\* C17 (as claimed): the gingival margin is signed: a save of a grid whose
\* only entries are negative margins passes validation and succeeds, the
\* rows written hold the margins with their sign, and a reload shows them
\* with sign and magnitude.
C17_NegativeMarginIsKept ==
  [][/\ (/\ focus = "sis_periodontogram"
         /\ current_patient_id # NoPatient
         /\ lastOp'.op = "save_perio_measurements"
         /\ \A k \in DOMAIN perio_entries :
              (EntryKind(k[2]) = "s" /\ perio_entries[k] # "") =>
                /\ k[2] \in {"Bucal_mg", "Lingual_mg"}
                /\ IsNegativeText(perio_entries[k])
         /\ \E k \in DOMAIN perio_entries :
              EntryKind(k[2]) = "s" /\ perio_entries[k] # "") =>
          /\ lastOp'.res = "ok"
          /\ \A t \in Range(all_teeth), i \in MarginColumns :
               LET k == <<t, PERIO_COLUMNS[i].key>>
               IN  (k \in DOMAIN perio_entries /\ perio_entries[k] # "") =>
                     /\ \E r \in periodontogram' :
                          /\ r.patient_id = current_patient_id
                          /\ r.tooth_number = t
                          /\ r.cols[i] = Val(PyFloat[perio_entries[k]])
                     /\ PyFloat[PerioPersisted(current_patient_id, k)']
                          = PyFloat[perio_entries[k]]
     /\ (/\ focus = "PeriodonticsTab"
         /\ patient_id # NoPatient
         /\ lastOp'.op = "save_all_to_db"
         /\ \E p \in DOMAIN widgets : IsNegativeText(widgets[p].mg)) =>
          /\ lastOp'.res = "ok"
          /\ \A p \in DOMAIN widgets :
               IsNegativeText(widgets[p].mg) =>
                 \E r \in periodontics' :
                   /\ r.patient_id = patient_id
                   /\ r.pieza = p
                   /\ r.mg = PyFloat[widgets[p].mg]
    ]_vars

\* the mobility grades
MOBILITY_GRADES == 0..3

\* the mobility column of the two-face grid
MobilityColumn ==
  CHOOSE i \in 1..Len(PERIO_COLUMNS) : PERIO_COLUMNS[i].column = "mobility"

\* C18 (as claimed): every persisted mobility is an integer grade 0..3, in
\* the six-site table and in the two-face table, in the connection's view and
\* committed.
C18_MobilityIsAGrade ==
  /\ \A r \in periodontics : r.mov \in MOBILITY_GRADES
  /\ \A r \in periodontogram \cup committed_periodontogram :
       r.cols[MobilityColumn].null \/ r.cols[MobilityColumn].v \in MOBILITY_GRADES

RECURSIVE SumAttachment(_, _)
\* the attachment levels of the sites in cells added up, in tenths, depth
\* minus margin standing in for a site whose NI is 'N/A'
SumAttachment(w, cells) ==
  IF cells = {} THEN 0
  ELSE LET c == CHOOSE x \in cells : TRUE
           ni == IF w[c[1]].ni[c[2]] = "N/A"
                   THEN _to_float(w[c[1]].ps[c[2]]) - _to_float(w[c[1]].mg)
                   ELSE _to_float(w[c[1]].ni[c[2]])
       IN  ni + SumAttachment(w, cells \ {c})

RECURSIVE SumDepths(_, _)
\* the depths of the sites in cells added up, in tenths
SumDepths(w, cells) ==
  IF cells = {} THEN 0
  ELSE LET c == CHOOSE x \in cells : TRUE
       IN  _to_float(w[c[1]].ps[c[2]]) + SumDepths(w, cells \ {c})

\* every (tooth, site) of the grid, touched or not
GridSites == Range(PerioPiezas) \X (1..Len(sitios))

\* C19 (as claimed): calculate_metrics goes over every (tooth, site) of the
\* grid and shows the mean depth, the mean attachment level with depth minus
\* margin for every site whose NI is 'N/A', the sites with bleeding as a
\* percentage of all sites, and 'N/A' for the plaque.
C19_MetricsFormulas ==
  (focus = "PeriodonticsTab" /\ lastOp.op = "calculate_metrics") =>
    /\ metrics.profundidad_media =
         <<"%.2f", RoundDiv(10 * SumDepths(widgets, GridSites),
                            Cardinality(GridSites))>>
    /\ metrics.nivel_insercion =
         <<"%.2f", RoundDiv(10 * SumAttachment(widgets, GridSites),
                            Cardinality(GridSites))>>
    /\ metrics.porcentaje_sas =
         <<"%.1f%%",
           RoundDiv(1000 * Cardinality({c \in GridSites :
                                          widgets[c[1]].ss[c[2]] # 0}),
                    Cardinality(GridSites))>>
    /\ metrics.porcentaje_placa = <<"N/A", 0>>

\* C20 (as claimed): calculate_metrics on a grid without sites divides
\* nothing and shows the value that stands for 'no data', the text "0", for
\* the mean depth, the mean attachment level and the bleeding percentage.
C20_NoSitesNoDivision ==
  (lastOp.op = "calculate_metrics" /\ DOMAIN widgets = {}) =>
    /\ metrics.profundidad_media = <<"0", 0>>
    /\ metrics.nivel_insercion = <<"0", 0>>
    /\ metrics.porcentaje_sas = <<"0", 0>>

\* the metrics calculated for the grid without teeth
C20_Witness ==
  /\ focus = "calculate_metrics"
  /\ lastOp.op = "calculate_metrics"
  /\ lastOp.res = "ok"
  /\ DOMAIN widgets = {}
  /\ metrics.porcentaje_placa = <<"N/A", 0>>


\* C21: importing a file that export_file wrote puts every tooth and every
\* site of the grid back to the values the grid held when the file was
\* written, and reports no error.
C21_ExportThenImportRestoresGrid ==
  [][(focus = "export_file" /\ lastOp'.op = "import_file"
      /\ lastOp'.res # "Sin paciente")
       => IF lastOp'.path = "export"
          THEN /\ lastOp'.res = "ok"
               /\ \E n \in 1..Len(exported) : widgets' = exported[n].grid
          ELSE TRUE]_vars

\* a grid with readings was exported, cleared and restored by the import
C21_Witness ==
  /\ focus = "export_file"
  /\ lastOp.op = "import_file"
  /\ lastOp.res = "ok"
  /\ IF lastOp.op = "import_file" THEN lastOp.path = "export" ELSE FALSE
  /\ Len(exported) > 0
  /\ widgets = exported[1].grid
  /\ \E c \in PerioSites(widgets) :
       /\ widgets[c[1]].ni[c[2]] # "N/A"
       /\ widgets[c[1]].ss[c[2]] = 1
       /\ widgets[c[1]].ps[c[2]] = "3.5"
  /\ \E p \in DOMAIN widgets : widgets[p].nota # "" /\ widgets[p].mov # "0"


\* every entry of the document has its "pieza", every site its "sitio", and
\* the flags are numerals
WellFormedDoc(datos) ==
  \A n \in 1..Len(datos) :
    /\ "pieza" \in DOMAIN datos[n]
    /\ \A j \in 1..Len(Get(datos[n], "sitios", <<>>)) :
         LET s == datos[n].sitios[j]
         IN  /\ "sitio" \in DOMAIN s
             /\ Get(s, "ss", "0") \in {"0", "1"}
             /\ Get(s, "sup", "0") \in {"0", "1"}

\* the entries of the document for tooth p, and the sites of entry d for
\* site i of the grid
EntriesOf(datos, p) == {n \in 1..Len(datos) : datos[n].pieza = p}

SitesOf(d, i) ==
  {j \in 1..Len(Get(d, "sitios", <<>>)) : d.sitios[j].sitio = sitios[i]}

\* C22: import_file passes over an entry of a tooth the grid has not and a
\* site that is not one of self.sitios without an error; every other entry
\* and site is applied, and the teeth and sites the document does not name
\* keep their fields.
C22_ImportSkipsUnknown ==
  [][(focus = "export_file" /\ lastOp'.op = "import_file"
      /\ lastOp'.res # "Sin paciente")
       => (WellFormedDoc(lastOp'.datos) =>
            /\ lastOp'.res = "ok"
            /\ \A p \in DOMAIN widgets :
                 IF EntriesOf(lastOp'.datos, p) = {}
                   THEN widgets'[p] = widgets[p]
                   ELSE \A n \in EntriesOf(lastOp'.datos, p) :
                          LET d == lastOp'.datos[n]
                          IN  /\ widgets'[p].mg = Get(d, "mg", "0")
                              /\ widgets'[p].mov = Get(d, "mov", "0")
                              /\ widgets'[p].nota = Get(d, "nota", "")
                              /\ \A i \in 1..Len(sitios) :
                                   IF SitesOf(d, i) = {}
                                     THEN /\ widgets'[p].ps[i] = widgets[p].ps[i]
                                          /\ widgets'[p].ni[i] = widgets[p].ni[i]
                                          /\ widgets'[p].ss[i] = widgets[p].ss[i]
                                          /\ widgets'[p].sup[i] = widgets[p].sup[i]
                                     ELSE \A j \in SitesOf(d, i) :
                                            LET s == d.sitios[j]
                                            IN  /\ widgets'[p].ps[i] = Get(s, "ps", "0")
                                                /\ widgets'[p].ni[i] = Get(s, "ni", "N/A")
                                                /\ StrOfInt(widgets'[p].ss[i]) = Get(s, "ss", "0")
                                                /\ StrOfInt(widgets'[p].sup[i]) = Get(s, "sup", "0"))]_vars

\* a document with an entry for tooth '99' and a site 'XX' was imported
\* without an error: its note for tooth 18 is set and the site of the grid
\* keeps its depth and its flag
C22_Witness ==
  /\ focus = "export_file"
  /\ lastOp.op = "import_file"
  /\ lastOp.res = "ok"
  /\ IF lastOp.op = "import_file"
       THEN /\ lastOp.datos \in SkipDocs
            /\ \E n \in 1..Len(lastOp.datos) :
                 lastOp.datos[n].pieza \notin DOMAIN widgets
            /\ \E n \in 1..Len(lastOp.datos) :
                 /\ lastOp.datos[n].pieza \in DOMAIN widgets
                 /\ \A j \in 1..Len(lastOp.datos[n].sitios) :
                      lastOp.datos[n].sitios[j].sitio \notin Range(sitios)
       ELSE FALSE
  /\ \E p \in DOMAIN widgets :
       /\ widgets[p].nota = "n"
       /\ widgets[p].ps[1] = "3.5"
       /\ widgets[p].sup[1] = 1


\* C23 (as claimed): an import that ends by reporting an error leaves every
\* field of the periodontal grid as it was before the import started; no
\* part of the document stays applied.
C23_FailedImportLeavesGrid ==
  [][(lastOp'.op = "import_file" /\ lastOp'.res = "Error")
       => widgets' = widgets]_vars


\* C24 (as claimed): table periodontics has a column for every field of a
\* measurement, the note too: save_all_to_db for a selected patient completes
\* and stores the row of every tooth and site of the grid, and a refresh
\* after it completes and shows what is stored.
C24_StoreHoldsTheNote ==
  /\ "nota" \in PeriodonticsColumns
  /\ (lastOp.op = "save_all_to_db" /\ lastOp.res # "Sin paciente") =>
       /\ lastOp.res = "ok"
       /\ PerioRowsOf(patient_id, widgets) \subseteq periodontics
  /\ (lastOp.op = "refresh" /\ lastOp.res # "Sin paciente") =>
       /\ lastOp.res = "ok"
       /\ widgets = FormOfRows(patient_id)


\* C25: "Aplicar a Todo el Diente" leaves every surface of the selected tooth
\* with the status picked and "Limpiar Diente" leaves every one of them
\* 'Sano'; no surface of another tooth changes.
C25_WholeToothOnly ==
  [][/\ (lastOp'.op = "apply_to_whole_tooth" /\ lastOp'.res = "ok") =>
          /\ selected_tooth # NoTooth
          /\ \A surface \in Range(SIS_SURFACES) :
               /\ <<selected_tooth[1], surface>> \in DOMAIN fill'
               /\ StatusOfColor(fill'[<<selected_tooth[1], surface>>])
                    = lastOp'.note
          /\ \A cell \in DOMAIN fill :
               cell[1] # selected_tooth[1] => fill'[cell] = fill[cell]
     /\ (lastOp'.op = "clear_tooth" /\ lastOp'.res = "ok") =>
          /\ selected_tooth # NoTooth
          /\ \A surface \in Range(SIS_SURFACES) :
               /\ <<selected_tooth[1], surface>> \in DOMAIN fill'
               /\ fill'[<<selected_tooth[1], surface>>] = tooth_colors["Sano"]
          /\ \A cell \in DOMAIN fill :
               cell[1] # selected_tooth[1] => fill'[cell] = fill[cell]]_vars

\* a tooth painted whole with 'Caries' and then another one cleared: the
\* first keeps its caries on every surface
C25_Witness ==
  /\ lastOp.op = "clear_tooth"
  /\ lastOp.res = "ok"
  /\ \A surface \in Range(SIS_SURFACES) :
       fill[<<selected_tooth[1], surface>>] = tooth_colors["Sano"]
  /\ \E t \in Range(SIS_TEETH) :
       /\ t # selected_tooth[1]
       /\ \A surface \in Range(SIS_SURFACES) :
            fill[<<t, surface>>] = tooth_colors["Caries"]


\* C26: clear_form leaves every tooth and every site of the grid at the
\* defaults, whatever the grid held: depth '0', margin '0', attachment level
\* 'N/A', bleeding and suppuration unset, mobility '0' and an empty note.
C26_ClearFormResetsEveryField ==
  [][lastOp'.op = "clear_form" =>
       /\ DOMAIN widgets' = DOMAIN widgets
       /\ \A p \in DOMAIN widgets' :
            /\ widgets'[p].mg = "0"
            /\ widgets'[p].mov = "0"
            /\ widgets'[p].nota = ""
            /\ \A i \in 1..Len(sitios) :
                 /\ widgets'[p].ps[i] = "0"
                 /\ widgets'[p].ni[i] = "N/A"
                 /\ widgets'[p].ss[i] = 0
                 /\ widgets'[p].sup[i] = 0]_vars

\* a grid with something in every field was exported, and the form cleared
C26_Witness ==
  /\ lastOp.op = "clear_form"
  /\ Len(exported) > 0
  /\ \A p \in DOMAIN widgets :
       /\ exported[1].grid[p].mg = "1"
       /\ exported[1].grid[p].mov = "7"
       /\ exported[1].grid[p].nota = "n"
       /\ widgets[p].mg = "0"
       /\ widgets[p].nota = ""
       /\ \A i \in 1..Len(sitios) :
            /\ exported[1].grid[p].ps[i] = "3.5"
            /\ exported[1].grid[p].ni[i] = "0"
            /\ exported[1].grid[p].ss[i] = 1
            /\ exported[1].grid[p].sup[i] = 1
            /\ widgets[p].ps[i] = "0"
            /\ widgets[p].ni[i] = "N/A"


\* C27 (as claimed): a deleted patient leaves nothing behind: the store holds
\* no odontogram or periodontal row of a patient it has no patients row for,
\* and a confirmed delete_patient ends with the patients row removed.
C27_DeleteRemovesEverything ==
  /\ \A r \in odontogram : r.patient_id \in patients
  /\ \A r \in periodontics : r.patient_id \in patients
  /\ \A r \in sis_odontogram : r.patient_id \in sis_patients
  /\ \A r \in committed_periodontogram : r.patient_id \in sis_patients
  /\ lastOp.op = "sis.delete_patient" =>
       /\ lastOp.res = "ok"
       /\ tree_selection = NoPatient


\* the teeth of a persisted snapshot
SnapshotTeeth(r) == DOMAIN JsonLoads(r.data_json)

\* the teeth of the click index
IndexTeeth == {cell[1] : cell \in DOMAIN rect_fill}

\* C28 (as claimed): in OdontogramTab every tooth of the working copy and of
\* the click index is a tooth of the active scheme, and every tooth of a
\* persisted snapshot is a tooth of the scheme stored with it.
C28_TeethOfActiveScheme ==
  /\ DOMAIN data \subseteq Range(_grid_piezas(esquema))
  /\ IndexTeeth \subseteq Range(_grid_piezas(esquema))
  /\ \A r \in odontogram : SnapshotTeeth(r) \subseteq Range(_grid_piezas(r.esquema))

\* C29 (as claimed): in OdontogramTab the colour of every rectangle is the
\* colour of the status of its tooth and surface in the working copy, 'Sano'
\* when the working copy has none.
C29_ViewRendersModel ==
  \A cell \in DOMAIN rect_fill :
    rect_fill[cell] = FillOf(GetStatus(data, cell[1], cell[2]))


\* C30 (as claimed): every bleeding and suppuration flag of the grid is 0 or
\* 1 in every reachable state, after import_file and refresh too, and the
\* bleeding percentage calculate_metrics shows is between 0 and 100.
C30_FlagsAreBooleans ==
  /\ \A c \in PerioSites(widgets) :
       /\ widgets[c[1]].ss[c[2]] \in {0, 1}
       /\ widgets[c[1]].sup[c[2]] \in {0, 1}
  /\ metrics.porcentaje_sas[2] >= 0
  /\ metrics.porcentaje_sas[2] <= 1000

====
